---- MODULE Spec2Model ----
(***************************************************************************)
(* CSV reconciliation (MSLCsvUpload, ProductCsvUpload, StoreCsvUpload) and *)
(* the MSL replace-by-category commit of the field-sales dashboard.        *)
(*                                                                         *)
(* Text is a sequence of tokens.  A token is one character (",", "\n",     *)
(* "\"", " ", "-", ".", a digit) or one word treated as an atom (a column  *)
(* name such as "CATEGORY", a value such as "X").  The string functions of *)
(* the source (trim, split, toUpperCase, replace, parseInt, parseFloat)    *)
(* are computed on these sequences.                                        *)
(***************************************************************************)
EXTENDS Integers, Sequences, FiniteSets, TLC

VARIABLES
  open,             \* which upload dialog is mounted: "none", "msl", "product", "store"
  file,             \* useState file: the selected file's text, or NoFile
  parsedItems,      \* MSLCsvUpload useState parsedItems
  categorySummary,  \* MSLCsvUpload useState categorySummary
  parsedProducts,   \* ProductCsvUpload useState parsedProducts
  parsedStores,     \* StoreCsvUpload useState parsedStores
  showPreview,      \* useState showPreview
  uploading,        \* useState uploading
  uploadResult,     \* useState uploadResult
  alertMsg,         \* the alert(...) raised by the last step, NoAlert if none
  msl_items,        \* table msl_items
  products,         \* table products
  stores,           \* table stores
  up,               \* the running uploadMSL call: its closure and its position
  timers,           \* number of pending setTimeout(onSuccess; onClose) callbacks
  storeError,       \* the error returned by the store operation of the last step, "none" if none
  commits,          \* number of uploadMSL calls started
  prev,             \* history: the last successful uploadMSL call, while the same rows are committed again
  ops,              \* history: the store operations issued by the last uploadMSL call of this session
  other,            \* the running uploadMSL call of another session (another administrator's browser)
  upsert,           \* the running uploadProducts / uploadStores / importProducts call, with
                    \* the history of its store calls and their answers
  upsertTimers,     \* pending setTimeout(onSuccess; onClose) callbacks of these calls, per dialog
  upsertCalls,      \* number of such calls started
  session,          \* the props user and userRole of the dashboard components
  visits,           \* table visits on the date shown, each row with the SKUs of its visit_orders
  stats,            \* Overview useState stats and loading
  dailyData,        \* DailyRecap useState dailyData and loading
  mslPage,          \* MSLManagement useState mslItems, categories, activeTab and loading
  exported,         \* the text of the file exportMSL downloaded, or NoFile
  cardItems,        \* the Stores page's useState mslItems: the MSL lists by category
  currentDate,      \* DailyRecap useState currentDate
  inFlight          \* the fetchDailyData calls that wait for the answer of the store

vars == <<open, file, parsedItems, categorySummary, parsedProducts, parsedStores,
          showPreview, uploading, uploadResult, alertMsg, msl_items, products,
          stores, up, timers, storeError, commits, prev, ops, other, upsert, upsertTimers, upsertCalls,
          session, visits, stats, dailyData,
          mslPage, exported, cardItems, currentDate, inFlight>>

\* the state of what runs beside the MSL dialog of this session
dashVars == <<session, visits, stats, dailyData>>
pageVars == <<mslPage, exported, cardItems, currentDate, inFlight>>
laterVars == <<other, upsert, upsertTimers, upsertCalls, dashVars, pageVars>>

dialogVars == <<file, parsedItems, categorySummary, parsedProducts, parsedStores,
                showPreview, uploading, uploadResult>>

tableVars == <<msl_items, products, stores>>

-----------------------------------------------------------------------------
(* Bounds of the model *)

\* data rows per file in the parsing specification
MaxRows == 2
\* data rows per file in the commit specification
MaxCommitRows == 2
\* uploadMSL calls per behaviour
MaxCommits == 2
\* uploadMSL calls of the other session per behaviour
MaxOtherCommits == 1
\* uploadProducts, uploadStores and importProducts calls per behaviour
MaxUpserts == 2
\* rows of the table visits on the date shown
MaxVisits == 2

-----------------------------------------------------------------------------
(* JavaScript string and number functions *)

NL == "\n"
COMMA == ","
QUOTE == "\""
HYPHEN == "-"
DOT == "."
Whitespace == {" ", "\t", "\r", NL}
Digits == {"0", "1", "2", "3", "4", "5", "6", "7", "8", "9"}

\* the value undefined (an array read past the end, or at index -1); no token
\* of a file is the token of this sequence
Undefined == <<"<undefined>">>

\* !v for a string or undefined
Falsy(v) == v = <<>> \/ v = Undefined

\* v || d
OrElse(v, d) == IF Falsy(v) THEN d ELSE v

RECURSIVE TrimStart(_)
TrimStart(s) ==
  IF s # <<>> /\ Head(s) \in Whitespace THEN TrimStart(Tail(s)) ELSE s

RECURSIVE TrimEnd(_)
TrimEnd(s) ==
  IF s # <<>> /\ s[Len(s)] \in Whitespace
  THEN TrimEnd(SubSeq(s, 1, Len(s) - 1))
  ELSE s

\* String.prototype.trim
trim(s) == TrimEnd(TrimStart(s))

\* String.prototype.split with a one-character separator
RECURSIVE split(_, _)
split(s, d) ==
  IF \A i \in 1..Len(s) : s[i] # d
  THEN <<s>>
  ELSE LET k == CHOOSE i \in 1..Len(s) : s[i] = d /\ \A j \in 1..(i - 1) : s[j] # d
       IN  <<SubSeq(s, 1, k - 1)>> \o split(SubSeq(s, k + 1, Len(s)), d)

\* Array.prototype.join
RECURSIVE join(_, _)
join(parts, d) ==
  IF parts = <<>> THEN <<>>
  ELSE IF Len(parts) = 1 THEN parts[1]
  ELSE parts[1] \o <<d>> \o join(Tail(parts), d)

\* toUpperCase of one token: the lower-case column names used in the files
UpperToken(t) ==
  CASE t = "category" -> "CATEGORY"
    [] t = "sku_code" -> "SKU_CODE"
    [] t = "product_name" -> "PRODUCT_NAME"
    [] t = "priority" -> "PRIORITY"
    [] t = "notes" -> "NOTES"
    [] t = "price" -> "PRICE"
    [] t = "kode_toko" -> "KODE_TOKO"
    [] OTHER -> t

\* String.prototype.toUpperCase
toUpperCase(s) == [i \in 1..Len(s) |-> UpperToken(s[i])]

\* v.replace(/^"|"$/g, ''): one quote at the start and one at the end, each if present
replaceQuotes(s) ==
  LET s1 == IF s # <<>> /\ Head(s) = QUOTE THEN Tail(s) ELSE s
  IN  IF s1 # <<>> /\ s1[Len(s1)] = QUOTE THEN SubSeq(s1, 1, Len(s1) - 1) ELSE s1

\* Array.prototype.indexOf, 1-based; 0 stands for -1
indexOf(arr, x) ==
  IF \E i \in 1..Len(arr) : arr[i] = x
  THEN CHOOSE i \in 1..Len(arr) : arr[i] = x /\ \A j \in 1..(i - 1) : arr[j] # x
  ELSE 0

\* Array.prototype.includes
includes(arr, x) == \E i \in 1..Len(arr) : arr[i] = x

\* arr[i] of JavaScript: undefined outside the array
At(arr, i) == IF i \in 1..Len(arr) THEN arr[i] ELSE Undefined

\* Array.prototype.filter
filter(arr, P(_)) == SelectSeq(arr, P)

\* numbers: a rational num/den with den a power of ten, or NaN
NaN == [nan |-> TRUE, num |-> 0, den |-> 1]
RECURSIVE Normal(_, _)
Normal(n, d) ==
  IF d > 1 /\ n % 10 = 0 THEN Normal(n \div 10, d \div 10)
  ELSE [nan |-> FALSE, num |-> n, den |-> d]
Num(n) == [nan |-> FALSE, num |-> n, den |-> 1]
isNaN(x) == x.nan
\* a < b, a <= b, a > b: false when either side is NaN
NumLT(a, b) == ~a.nan /\ ~b.nan /\ a.num * b.den < b.num * a.den
NumLE(a, b) == ~a.nan /\ ~b.nan /\ a.num * b.den <= b.num * a.den
NumGT(a, b) == NumLT(b, a)

DigitVal(c) ==
  CASE c = "0" -> 0 [] c = "1" -> 1 [] c = "2" -> 2 [] c = "3" -> 3 [] c = "4" -> 4
    [] c = "5" -> 5 [] c = "6" -> 6 [] c = "7" -> 7 [] c = "8" -> 8 [] c = "9" -> 9

RECURSIVE DigitPrefix(_)
DigitPrefix(s) ==
  IF s # <<>> /\ Head(s) \in Digits THEN <<Head(s)>> \o DigitPrefix(Tail(s)) ELSE <<>>

RECURSIVE DecValue(_, _)
DecValue(ds, acc) ==
  IF ds = <<>> THEN acc ELSE DecValue(Tail(ds), 10 * acc + DigitVal(Head(ds)))

RECURSIVE Pow10(_)
Pow10(n) == IF n = 0 THEN 1 ELSE 10 * Pow10(n - 1)

\* parseInt(s): leading whitespace, a sign, then the longest run of decimal
\* digits; NaN when there is no digit (the files hold no "0x" prefix)
parseInt(s) ==
  LET t == TrimStart(s)
      signed == t # <<>> /\ Head(t) \in {"-", "+"}
      u == IF signed THEN Tail(t) ELSE t
      ds == DigitPrefix(u)
      v == DecValue(ds, 0)
  IN  IF ds = <<>> THEN NaN
      ELSE Num(IF signed /\ Head(t) = "-" THEN 0 - v ELSE v)

\* parseFloat(s): leading whitespace, a sign, digits, optionally "." and
\* digits; NaN when there is no digit (the files hold no exponent)
parseFloat(s) ==
  LET t == TrimStart(s)
      signed == t # <<>> /\ Head(t) \in {"-", "+"}
      u == IF signed THEN Tail(t) ELSE t
      ip == DigitPrefix(u)
      rest == SubSeq(u, Len(ip) + 1, Len(u))
      fp == IF rest # <<>> /\ Head(rest) = DOT THEN DigitPrefix(Tail(rest)) ELSE <<>>
      v == DecValue(ip \o fp, 0)
      r == Normal(IF signed /\ Head(t) = "-" THEN 0 - v ELSE v, Pow10(Len(fp)))
  IN  IF ip = <<>> /\ fp = <<>> THEN NaN ELSE r

\* values of a row: lines[i].split(',').map(v => v.trim().replace(/^"|"$/g, ''))
ValuesUnquoted(line) ==
  LET cells == split(line, COMMA)
  IN  [k \in 1..Len(cells) |-> replaceQuotes(trim(cells[k]))]

\* values of a row: lines[i].split(',').map(v => v.trim())
ValuesTrimmed(line) ==
  LET cells == split(line, COMMA)
  IN  [k \in 1..Len(cells) |-> trim(cells[k])]

\* blank lines dropped before the rows are counted
LinesSkipBlank(text) ==
  LET NonBlank(l) == trim(l) # <<>>
  IN  filter(split(trim(text), NL), NonBlank)

\* lines of a file: text.trim().split('\n')
Lines(text) == split(trim(text), NL)

\* headers of a file: lines[0].split(',').map(h => h.trim().toUpperCase())
Headers(lines) ==
  LET cells == split(lines[1], COMMA)
  IN  [k \in 1..Len(cells) |-> toUpperCase(trim(cells[k]))]

\* only the first missing column is reported
MissingHeadersFirst(requiredHeaders, headers) ==
  LET Absent(h) == ~includes(headers, h)
      all == filter(requiredHeaders, Absent)
  IN  IF all = <<>> THEN <<>> ELSE <<Head(all)>>

\* requiredHeaders.filter(header => !headers.includes(header))
MissingHeaders(requiredHeaders, headers) ==
  LET Absent(h) == ~includes(headers, h)
  IN  filter(requiredHeaders, Absent)

\* no file is selected; no text of a file is this sequence
NoFile == <<"<no file>">>
NoError == [row |-> 0, reason |-> ""]
RowError(i, r) == [row |-> i, reason |-> r]
NoAlert == [kind |-> "none"]
NoResult == [none |-> TRUE]

-----------------------------------------------------------------------------
(* MSLCsvUpload.parseCsv *)

MSLRequiredHeaders ==
  << <<"CATEGORY">>, <<"SKU_CODE">>, <<"PRODUCT_NAME">>, <<"PRIORITY">> >>

\* column indices (headers.indexOf)
MSLIndices(headers) ==
  [category |-> indexOf(headers, <<"CATEGORY">>),
   sku      |-> indexOf(headers, <<"SKU_CODE">>),
   name     |-> indexOf(headers, <<"PRODUCT_NAME">>),
   priority |-> indexOf(headers, <<"PRIORITY">>),
   notes    |-> indexOf(headers, <<"NOTES">>)]

\* the cells of one data row: values[index] || ''
MSLCells(line, ix) ==
  LET values == ValuesUnquoted(line)
  IN  [category    |-> OrElse(At(values, ix.category), <<>>),
       sku         |-> OrElse(At(values, ix.sku), <<>>),
       name        |-> OrElse(At(values, ix.name), <<>>),
       priorityStr |-> OrElse(At(values, ix.priority), <<>>),
       notes       |-> IF ix.notes >= 1 THEN OrElse(At(values, ix.notes), <<>>) ELSE <<>>]

\* the key of seenSkus: `${category}-${sku}`
MSLKey(category, sku) == category \o <<HYPHEN>> \o sku

\* the key of a row that passes is not recorded
MSLRequiredAndDuplicateNoAdd(c, row, seenSkus) ==
  IF Falsy(c.category) \/ Falsy(c.sku) \/ Falsy(c.name) \/ Falsy(c.priorityStr)
  THEN [isValid |-> FALSE,
        error |-> RowError(row, "Missing required fields (CATEGORY, SKU_CODE, PRODUCT_NAME, PRIORITY)"),
        seenSkus |-> seenSkus]
  ELSE IF MSLKey(c.category, c.sku) \in seenSkus
  THEN [isValid |-> FALSE,
        error |-> RowError(row, "Duplicate SKU in same category"),
        seenSkus |-> seenSkus]
  ELSE [isValid |-> TRUE, error |-> NoError, seenSkus |-> seenSkus]

\* required fields, then duplicate in the batch; a row that passes both is
\* added to seenSkus
MSLRequiredAndDuplicate(c, row, seenSkus) ==
  IF Falsy(c.category) \/ Falsy(c.sku) \/ Falsy(c.name) \/ Falsy(c.priorityStr)
  THEN [isValid |-> FALSE,
        error |-> RowError(row, "Missing required fields (CATEGORY, SKU_CODE, PRODUCT_NAME, PRIORITY)"),
        seenSkus |-> seenSkus]
  ELSE IF MSLKey(c.category, c.sku) \in seenSkus
  THEN [isValid |-> FALSE,
        error |-> RowError(row, "Duplicate SKU in same category"),
        seenSkus |-> seenSkus]
  ELSE [isValid |-> TRUE, error |-> NoError,
        seenSkus |-> seenSkus \cup {MSLKey(c.category, c.sku)}]

\* the priority is checked whatever the earlier checks found
MSLPriorityCheckUnguarded(v, priority, row) ==
  IF isNaN(priority) \/ NumLT(priority, Num(1))
  THEN [v EXCEPT !.isValid = FALSE,
                 !.error = RowError(row, "Invalid priority (must be positive integer)")]
  ELSE v

\* if (isValid && (isNaN(priority) || priority < 1))
MSLPriorityCheck(v, priority, row) ==
  IF v.isValid /\ (isNaN(priority) \/ NumLT(priority, Num(1)))
  THEN [v EXCEPT !.isValid = FALSE,
                 !.error = RowError(row, "Invalid priority (must be positive integer)")]
  ELSE v

\* the body of the row loop: the item pushed for line i, and seenSkus after it
MSLParseRow(line, ix, row, seenSkus) ==
  LET c == MSLCells(line, ix)
      priority == parseInt(c.priorityStr)
      v == MSLPriorityCheck(MSLRequiredAndDuplicate(c, row, seenSkus), priority, row)
  IN  [item |-> [category |-> c.category, sku_code |-> c.sku, product_name |-> c.name,
                 priority |-> priority, notes |-> c.notes,
                 isValid |-> v.isValid, error |-> v.error],
       seenSkus |-> v.seenSkus]

\* for (let i = 1; i < lines.length; i++) { ... parsed.push(...) }
RECURSIVE MSLParseRows(_, _, _, _, _)
MSLParseRows(lines, ix, i, seenSkus, parsed) ==
  IF i > Len(lines) THEN parsed
  ELSE LET r == MSLParseRow(lines[i], ix, i, seenSkus)
       IN  MSLParseRows(lines, ix, i + 1, r.seenSkus, Append(parsed, r.item))

\* the filter lets every row through
AnyRow(item) == TRUE

\* p => p.isValid
IsValidRow(item) == item.isValid

\* every element is kept
KeepAll(arr) == arr

\* first occurrences, in order: the key order of a Map, [...new Set(...)]
RECURSIVE Unique(_)
Unique(arr) ==
  IF arr = <<>> THEN <<>>
  ELSE LET init == Unique(SubSeq(arr, 1, Len(arr) - 1))
           x == arr[Len(arr)]
       IN  IF includes(init, x) THEN init ELSE Append(init, x)

RECURSIVE InsertByPriority(_, _)
InsertByPriority(sorted, item) ==
  IF sorted = <<>> THEN <<item>>
  ELSE IF NumLT(item.priority, Head(sorted).priority) THEN <<item>> \o sorted
  ELSE <<Head(sorted)>> \o InsertByPriority(Tail(sorted), item)

\* items.sort((a, b) => a.priority - b.priority), a stable sort
RECURSIVE SortByPriority(_)
SortByPriority(items) ==
  IF items = <<>> THEN <<>>
  ELSE InsertByPriority(SortByPriority(SubSeq(items, 1, Len(items) - 1)), items[Len(items)])

\* the category summary of the valid items
CategorySummary(parsed) ==
  LET validItems == filter(parsed, IsValidRow)
      cats == Unique([k \in 1..Len(validItems) |-> validItems[k].category])
  IN  [k \in 1..Len(cats) |->
         LET InCat(item) == item.category = cats[k]
             items == filter(validItems, InCat)
         IN  [category |-> cats[k], count |-> Len(items), items |-> SortByPriority(items)]]

MSLparseCsv ==
  /\ open = "msl" /\ ~showPreview /\ file # NoFile
  /\ LET lines == Lines(file)
     IN  IF Len(lines) < 2
         THEN /\ alertMsg' = [kind |-> "CSV file must have at least a header row and one data row"]
              /\ UNCHANGED <<parsedItems, categorySummary, showPreview>>
         ELSE LET headers == Headers(lines)
                  missingHeaders == MissingHeaders(MSLRequiredHeaders, headers)
              IN  IF Len(missingHeaders) > 0
                  THEN /\ alertMsg' = [kind |-> "Missing required columns", columns |-> missingHeaders]
                       /\ UNCHANGED <<parsedItems, categorySummary, showPreview>>
                  ELSE LET parsed == MSLParseRows(lines, MSLIndices(headers), 2, {}, <<>>)
                       IN  /\ parsedItems' = parsed
                           /\ categorySummary' = CategorySummary(parsed)
                           /\ showPreview' = TRUE
                           /\ alertMsg' = NoAlert
  /\ storeError' = "none"
  /\ UNCHANGED <<open, file, parsedProducts, parsedStores, uploading, uploadResult,
                 tableVars, up, timers, commits, prev, ops, laterVars>>

-----------------------------------------------------------------------------
(* ProductCsvUpload.parseCsv *)

ProductRequiredHeaders ==
  << <<"SKU_CODE">>, <<"PRODUCT_NAME">>, <<"BRAND">>, <<"CATEGORY">>, <<"PRICE">> >>

ProductIndices(headers) ==
  [sku      |-> indexOf(headers, <<"SKU_CODE">>),
   name     |-> indexOf(headers, <<"PRODUCT_NAME">>),
   brand    |-> indexOf(headers, <<"BRAND">>),
   category |-> indexOf(headers, <<"CATEGORY">>),
   price    |-> indexOf(headers, <<"PRICE">>),
   discount |-> indexOf(headers, <<"DISCOUNT">>)]

\* the cells of one data row with enough columns: values[index], no default
ProductCells(values, ix) ==
  [sku         |-> At(values, ix.sku),
   name        |-> At(values, ix.name),
   brand       |-> At(values, ix.brand),
   category    |-> At(values, ix.category),
   priceStr    |-> At(values, ix.price),
   discountStr |-> IF ix.discount >= 1 THEN At(values, ix.discount) ELSE <<"0">>]

\* the row pushed when values.length < requiredHeaders.length
ProductInsufficient(values, ix, row) ==
  [sku_code |-> OrElse(At(values, ix.sku), <<>>),
   product_name |-> OrElse(At(values, ix.name), <<>>),
   brand |-> OrElse(At(values, ix.brand), <<>>),
   category |-> OrElse(At(values, ix.category), <<>>),
   price |-> Num(0), discount |-> Num(0),
   isValid |-> FALSE, error |-> RowError(row, "Insufficient columns"),
   action |-> "undefined"]

\* required fields, then duplicate in the file; a row that passes both is
\* added to seenSkus
ProductRequiredAndDuplicate(c, row, seenSkus) ==
  IF Falsy(c.sku) \/ Falsy(c.name) \/ Falsy(c.brand) \/ Falsy(c.category) \/ Falsy(c.priceStr)
  THEN [isValid |-> FALSE, error |-> RowError(row, "Missing required fields"),
        seenSkus |-> seenSkus]
  ELSE IF c.sku \in seenSkus
  THEN [isValid |-> FALSE, error |-> RowError(row, "Duplicate SKU in file"),
        seenSkus |-> seenSkus]
  ELSE [isValid |-> TRUE, error |-> NoError, seenSkus |-> seenSkus \cup {c.sku}]

\* parseFloat(discountStr) || 0
ProductDiscount(discountStr) ==
  LET d == parseFloat(discountStr)
  IN  IF isNaN(d) \/ d = Num(0) THEN Num(0) ELSE d

\* if (isValid && (isNaN(price) || price <= 0))
ProductPriceCheck(v, price, row) ==
  IF v.isValid /\ (isNaN(price) \/ NumLE(price, Num(0)))
  THEN [v EXCEPT !.isValid = FALSE, !.error = RowError(row, "Invalid price")]
  ELSE v

\* if (isValid && (isNaN(discount) || discount < 0 || discount > 100))
ProductDiscountCheck(v, discount, row) ==
  IF v.isValid /\ (isNaN(discount) \/ NumLT(discount, Num(0)) \/ NumGT(discount, Num(100)))
  THEN [v EXCEPT !.isValid = FALSE, !.error = RowError(row, "Invalid discount (must be 0-100)")]
  ELSE v

\* the two tags exchanged
ActionTagSwapped(key, existing) == IF key \in existing THEN "INSERT" ELSE "UPDATE"

\* existingSkus.has(sku) ? 'UPDATE' : 'INSERT'
ActionTag(key, existing) == IF key \in existing THEN "UPDATE" ELSE "INSERT"

ProductParseRow(line, ix, row, seenSkus, existingSkus) ==
  LET values == ValuesTrimmed(line)
  IN  IF Len(values) < Len(ProductRequiredHeaders)
      THEN [item |-> ProductInsufficient(values, ix, row), seenSkus |-> seenSkus]
      ELSE LET c == ProductCells(values, ix)
               price == parseFloat(c.priceStr)
               discount == ProductDiscount(c.discountStr)
               v == ProductDiscountCheck(
                      ProductPriceCheck(ProductRequiredAndDuplicate(c, row, seenSkus),
                                        price, row),
                      discount, row)
           IN  [item |-> [sku_code |-> c.sku, product_name |-> c.name, brand |-> c.brand,
                          category |-> c.category, price |-> price, discount |-> discount,
                          isValid |-> v.isValid, error |-> v.error,
                          action |-> ActionTag(c.sku, existingSkus)],
                seenSkus |-> v.seenSkus]

RECURSIVE ProductParseRows(_, _, _, _, _, _)
ProductParseRows(lines, ix, i, seenSkus, existingSkus, parsed) ==
  IF i > Len(lines) THEN parsed
  ELSE LET r == ProductParseRow(lines[i], ix, i, seenSkus, existingSkus)
       IN  ProductParseRows(lines, ix, i + 1, r.seenSkus, existingSkus,
                            Append(parsed, r.item))

\* supabase.from('products').select('sku_code'): data is null when the call fails
SelectSkuCodes(ok) == IF ok THEN {p.sku_code : p \in products} ELSE {}

ProductparseCsv ==
  /\ open = "product" /\ ~showPreview /\ file # NoFile
  /\ LET lines == Lines(file)
     IN  IF Len(lines) < 2
         THEN /\ alertMsg' = [kind |-> "CSV file must have at least a header row and one data row"]
              /\ UNCHANGED <<parsedProducts, showPreview>>
         ELSE LET headers == Headers(lines)
                  missingHeaders == MissingHeaders(ProductRequiredHeaders, headers)
              IN  IF Len(missingHeaders) > 0
                  THEN /\ alertMsg' = [kind |-> "Missing required columns", columns |-> missingHeaders]
                       /\ UNCHANGED <<parsedProducts, showPreview>>
                  ELSE \E ok \in BOOLEAN :
                         /\ parsedProducts' =
                              ProductParseRows(lines, ProductIndices(headers), 2, {},
                                               SelectSkuCodes(ok), <<>>)
                         /\ showPreview' = TRUE
                         /\ alertMsg' = NoAlert
  /\ storeError' = "none"
  /\ UNCHANGED <<open, file, parsedItems, categorySummary, parsedStores, uploading,
                 uploadResult, tableVars, up, timers, commits, prev, ops, laterVars>>

-----------------------------------------------------------------------------
(* StoreCsvUpload.parseCsv *)

\* user.id of the session
CurrentUser == "u1"

StoreRequiredHeaders == << <<"KODE_TOKO">>, <<"NAMA_TOKO">>, <<"KATEGORI">> >>

StoreIndices(headers) ==
  [kode      |-> indexOf(headers, <<"KODE_TOKO">>),
   nama      |-> indexOf(headers, <<"NAMA_TOKO">>),
   kategori  |-> indexOf(headers, <<"KATEGORI">>),
   alamat    |-> indexOf(headers, <<"ALAMAT">>),
   gmaps     |-> indexOf(headers, <<"GOOGLE_MAPS">>),
   route     |-> indexOf(headers, <<"ROUTE">>),
   telepon   |-> indexOf(headers, <<"TELEPON">>),
   avgOrder  |-> indexOf(headers, <<"AVG_ORDER_VALUE">>),
   frekuensi |-> indexOf(headers, <<"FREKUENSI_ORDER">>),
   kontak    |-> indexOf(headers, <<"KONTAK_UTAMA">>),
   catatan   |-> indexOf(headers, <<"CATATAN">>)]

\* the cells of one data row: values[index] || default
StoreCells(line, ix) ==
  LET values == ValuesUnquoted(line)
  IN  [kode      |-> OrElse(At(values, ix.kode), <<>>),
       nama      |-> OrElse(At(values, ix.nama), <<>>),
       kategori  |-> OrElse(At(values, ix.kategori), <<>>),
       alamat    |-> OrElse(At(values, ix.alamat), <<>>),
       gmaps     |-> OrElse(At(values, ix.gmaps), <<>>),
       route     |-> OrElse(At(values, ix.route), <<"A">>),
       telepon   |-> OrElse(At(values, ix.telepon), <<>>),
       avgOrder  |-> OrElse(At(values, ix.avgOrder), <<"0">>),
       frekuensi |-> OrElse(At(values, ix.frekuensi), <<>>),
       kontak    |-> OrElse(At(values, ix.kontak), <<>>),
       catatan   |-> OrElse(At(values, ix.catatan), <<>>)]

\* required fields, then duplicate in the file; a row that passes both is
\* added to seenCodes
StoreRequiredAndDuplicate(c, row, seenCodes) ==
  IF Falsy(c.kode) \/ Falsy(c.nama) \/ Falsy(c.kategori)
  THEN [isValid |-> FALSE,
        error |-> RowError(row, "Missing required fields (KODE_TOKO, NAMA_TOKO, KATEGORI)"),
        seenCodes |-> seenCodes]
  ELSE IF c.kode \in seenCodes
  THEN [isValid |-> FALSE, error |-> RowError(row, "Duplicate store code in file"),
        seenCodes |-> seenCodes]
  ELSE [isValid |-> TRUE, error |-> NoError, seenCodes |-> seenCodes \cup {c.kode}]

\* if (isValid && avgOrder && avgOrder !== '0') { parseFloat; isNaN || < 0 }
StoreAvgOrderCheck(v, avgOrder, row) ==
  IF v.isValid /\ ~Falsy(avgOrder) /\ avgOrder # <<"0">>
     /\ (isNaN(parseFloat(avgOrder)) \/ NumLT(parseFloat(avgOrder), Num(0)))
  THEN [v EXCEPT !.isValid = FALSE, !.error = RowError(row, "Invalid average order value")]
  ELSE v

StoreParseRow(line, ix, row, seenCodes, existingCodes) ==
  LET c == StoreCells(line, ix)
      v == StoreAvgOrderCheck(StoreRequiredAndDuplicate(c, row, seenCodes), c.avgOrder, row)
  IN  [item |-> [kode_toko |-> c.kode, nama_toko |-> c.nama, kategori |-> c.kategori,
                 alamat |-> c.alamat, google_maps |-> c.gmaps, route |-> c.route,
                 telepon |-> c.telepon, avg_order_value |-> c.avgOrder,
                 frekuensi_order |-> c.frekuensi, kontak_utama |-> c.kontak,
                 catatan |-> c.catatan, isValid |-> v.isValid, error |-> v.error,
                 action |-> ActionTag(c.kode, existingCodes)],
       seenCodes |-> v.seenCodes]

RECURSIVE StoreParseRows(_, _, _, _, _, _)
StoreParseRows(lines, ix, i, seenCodes, existingCodes, parsed) ==
  IF i > Len(lines) THEN parsed
  ELSE LET r == StoreParseRow(lines[i], ix, i, seenCodes, existingCodes)
       IN  StoreParseRows(lines, ix, i + 1, r.seenCodes, existingCodes,
                          Append(parsed, r.item))

\* supabase.from('stores').select('store_code').eq('created_by', user.id)
SelectStoreCodes(ok) ==
  IF ok THEN {s.store_code : s \in {t \in stores : t.created_by = CurrentUser}} ELSE {}

StoreparseCsv ==
  /\ open = "store" /\ ~showPreview /\ file # NoFile
  /\ LET lines == Lines(file)
     IN  IF Len(lines) < 2
         THEN /\ alertMsg' = [kind |-> "CSV file must have at least a header row and one data row"]
              /\ UNCHANGED <<parsedStores, showPreview>>
         ELSE LET headers == Headers(lines)
                  missingHeaders == MissingHeaders(StoreRequiredHeaders, headers)
              IN  IF Len(missingHeaders) > 0
                  THEN /\ alertMsg' = [kind |-> "Missing required columns", columns |-> missingHeaders]
                       /\ UNCHANGED <<parsedStores, showPreview>>
                  ELSE \E ok \in BOOLEAN :
                         /\ parsedStores' =
                              StoreParseRows(lines, StoreIndices(headers), 2, {},
                                             SelectStoreCodes(ok), <<>>)
                         /\ showPreview' = TRUE
                         /\ alertMsg' = NoAlert
  /\ storeError' = "none"
  /\ UNCHANGED <<open, file, parsedItems, categorySummary, parsedProducts, uploading,
                 uploadResult, tableVars, up, timers, commits, prev, ops, laterVars>>

-----------------------------------------------------------------------------
(* The tables *)

\* SQL NULL
Null == <<"<null>">>

MSLItem(category, sku, name, priority, notes) ==
  [category |-> category, sku_code |-> sku, product_name |-> name,
   priority |-> priority, notes |-> notes]

\* the rows of msl_items after the migrations (sample data of the migration)
SeedMSL ==
  {MSLItem(<<"X">>, <<"A">>, <<"seed">>, 1, <<"top">>),
   MSLItem(<<"X">>, <<"C">>, <<"seed">>, 2, Null),
   MSLItem(<<"Y">>, <<"B">>, <<"seed">>, 1, Null),
   MSLItem(<<"Z">>, <<"A">>, <<"seed">>, 1, Null)}

SeedProducts ==
  {[sku_code |-> <<"S1">>, product_name |-> <<"seed">>, category |-> <<"c">>,
    unit_price |-> Num(10)]}

SeedStores ==
  {[store_code |-> <<"T1">>, store_name |-> <<"seed">>, category |-> <<"X">>,
    created_by |-> CurrentUser],
   [store_code |-> <<"T2">>, store_name |-> <<"seed">>, category |-> <<"Y">>,
    created_by |-> "u2"]}

\* the table has no constraint
NoConstraint(table, rows) == FALSE

\* UNIQUE(category, sku_code): the rows cannot be added to the table
UniqueViolation(table, rows) ==
  \/ \E r \in rows, t \in table : r.category = t.category /\ r.sku_code = t.sku_code
  \/ \E r1 \in rows, r2 \in rows :
       r1 # r2 /\ r1.category = r2.category /\ r1.sku_code = r2.sku_code

\* the delete removes no row
DeleteNothing(table, category) == table

\* the delete has no filter
DeleteAll(table, category) == {}

\* supabase.from('msl_items').delete().eq('category', category)
DeleteCategory(table, category) == {t \in table : t.category # category}

\* supabase.from('msl_items').insert(insertData): all rows or none
InsertRows(table, rows) ==
  IF UniqueViolation(table, rows)
  THEN [error |-> "unique", table |-> table]
  ELSE [error |-> "none", table |-> table \cup rows]

-----------------------------------------------------------------------------
(* The dialogs *)

Idle == [pc |-> "idle"]
NoTimers == [product |-> 0, store |-> 0, import |-> 0]
\* the other session has started n uploads and runs none
OtherIdle(n) == [pc |-> "idle", started |-> n]
NoPrev == [none |-> TRUE]
\* useState({ totalCall: 0, totalEC: 0, mslAchievement: 0, ... })
NoStats ==
  [loading |-> TRUE, totalCall |-> 0, totalEC |-> 0,
   mslAchievement |-> [nan |-> FALSE, num |-> 0, den |-> 1], monthlySales |-> 0]
\* useState([]) of mslItems and categories, useState('') of activeTab, useState(true)
NoMslPage == [mslItems |-> <<>>, categories |-> <<>>, activeTab |-> <<>>, loading |-> TRUE]
\* new Date().toISOString().split('T')[0], and the day before
Today == "today"
Yesterday == "yesterday"
\* useState({ visits: [], totalVisits: 0, totalEC: 0, ..., mslAchievement: 0 })
NoDailyData ==
  [loading |-> TRUE, visits |-> <<>>, totalVisits |-> 0, totalEC |-> 0, totalSales |-> 0,
   mslAchievement |-> [nan |-> FALSE, num |-> 0, den |-> 1]]

Init ==
  /\ open = "none"
  /\ file = NoFile
  /\ parsedItems = <<>>
  /\ categorySummary = <<>>
  /\ parsedProducts = <<>>
  /\ parsedStores = <<>>
  /\ showPreview = FALSE
  /\ uploading = FALSE
  /\ uploadResult = NoResult
  /\ alertMsg = NoAlert
  /\ msl_items = SeedMSL
  /\ products = SeedProducts
  /\ stores = SeedStores
  /\ up = Idle
  /\ timers = 0
  /\ storeError = "none"
  /\ commits = 0
  /\ prev = NoPrev
  /\ ops = <<>>
  /\ other = OtherIdle(0)
  /\ upsert = Idle
  /\ upsertTimers = NoTimers
  /\ upsertCalls = 0
  /\ session = [id |-> CurrentUser, userRole |-> "admin"]
  /\ visits = <<>>
  /\ stats = NoStats
  /\ dailyData = NoDailyData
  /\ mslPage = NoMslPage
  /\ exported = NoFile
  /\ cardItems = <<>>
  /\ currentDate = Today
  /\ inFlight = <<>>

\* a dialog component is mounted with its initial state
ResetDialog ==
  /\ file' = NoFile
  /\ parsedItems' = <<>>
  /\ categorySummary' = <<>>
  /\ parsedProducts' = <<>>
  /\ parsedStores' = <<>>
  /\ showPreview' = FALSE
  /\ uploading' = FALSE
  /\ uploadResult' = NoResult

\* setShowCsvUpload(true) of the page that owns the dialog
OpenDialog(d) ==
  /\ open = "none"
  /\ open' = d
  /\ ResetDialog
  /\ alertMsg' = NoAlert
  /\ storeError' = "none"
  /\ UNCHANGED <<tableVars, up, timers, commits, prev, ops, laterVars>>

\* the running upload no longer belongs to a mounted dialog
Detached(u) == IF u.pc = "idle" THEN u ELSE [u EXCEPT !.attached = FALSE]

\* onClose: setShowCsvUpload(false); the dialog unmounts, a running upload goes on
onClose ==
  /\ open # "none"
  /\ open' = "none"
  /\ ResetDialog
  /\ up' = Detached(up)
  /\ upsert' = Detached(upsert)
  /\ alertMsg' = NoAlert
  /\ storeError' = "none"
  /\ UNCHANGED <<tableVars, timers, commits, prev, ops, other, upsertTimers,
                 upsertCalls, dashVars, pageVars>>

\* handleFileChange: a file of type text/csv is kept, another one is refused
handleFileChange(files) ==
  /\ open # "none" /\ ~showPreview
  /\ \/ \E f \in files : file' = f /\ alertMsg' = NoAlert
     \/ /\ alertMsg' = [kind |-> "Please select a valid CSV file"]
        /\ UNCHANGED file
  /\ storeError' = "none"
  /\ UNCHANGED <<open, parsedItems, categorySummary, parsedProducts, parsedStores,
                 showPreview, uploading, uploadResult, tableVars, up, timers,
                 commits, prev, ops, laterVars>>

\* the Back button: setShowPreview(false), disabled while uploading
Back ==
  /\ open # "none" /\ showPreview /\ ~uploading
  /\ showPreview' = FALSE
  /\ alertMsg' = NoAlert
  /\ storeError' = "none"
  /\ UNCHANGED <<open, file, parsedItems, categorySummary, parsedProducts, parsedStores,
                 uploading, uploadResult, tableVars, up, timers, commits, prev, ops, laterVars>>

-----------------------------------------------------------------------------
(* MSLCsvUpload.uploadMSL *)

\* insertData: one row per valid item, notes: item.notes || null
InsertData(validItems) ==
  {MSLItem(validItems[k].category, validItems[k].sku_code, validItems[k].product_name,
           validItems[k].priority.num, OrElse(validItems[k].notes, Null)) :
     k \in 1..Len(validItems)}

\* only the category of the first valid item
CategoriesFirstOnly(validItems) == <<validItems[1].category>>

\* [...new Set(validItems.map(item => item.category))]
CategoriesToUpdate(validItems) ==
  Unique([k \in 1..Len(validItems) |-> validItems[k].category])

\* result[cat.category] = cat.count
ResultSummary(summary) ==
  [counts |-> {<<summary[k].category, summary[k].count>> : k \in 1..Len(summary)}]

\* a store operation as it is issued, with the error it returned
DeleteOp(category, err) == [op |-> "delete", category |-> category, error |-> err]
InsertOp(rows, err) == [op |-> "insert", rows |-> rows, error |-> err]

\* the click on the commit button up to the first await
uploadMSL ==
  /\ open = "msl" /\ showPreview /\ ~uploading
  /\ Len(filter(parsedItems, IsValidRow)) > 0
  /\ up.pc = "idle"
  /\ commits < MaxCommits
  /\ commits' = commits + 1
  /\ uploading' = TRUE
  /\ LET validItems == filter(parsedItems, IsValidRow)
     IN  /\ up' = [pc |-> "delete", validItems |-> validItems,
                   categories |-> CategoriesToUpdate(validItems),
                   summary |-> categorySummary, attached |-> TRUE]
         /\ prev' = IF prev # NoPrev /\ prev.validItems = validItems THEN prev ELSE NoPrev
  /\ ops' = <<>>
  /\ alertMsg' = NoAlert
  /\ storeError' = "none"
  /\ UNCHANGED <<open, file, parsedItems, categorySummary, parsedProducts, parsedStores,
                 showPreview, uploadResult, tableVars, timers, laterVars>>

\* the failure is not reported
UploadFailedNoAlert(err) ==
  /\ storeError' = err
  /\ alertMsg' = NoAlert
  /\ uploading' = IF up.attached THEN FALSE ELSE uploading
  /\ up' = Idle
  /\ UNCHANGED <<uploadResult, timers, prev>>

\* the success callback is scheduled all the same
UploadFailedCallsOnSuccess(err) ==
  /\ storeError' = err
  /\ alertMsg' = [kind |-> "Failed to upload MSL. Please try again."]
  /\ uploading' = IF up.attached THEN FALSE ELSE uploading
  /\ up' = Idle
  /\ timers' = timers + 1
  /\ UNCHANGED <<uploadResult, prev>>

\* the failure leaves the flag of the dialog as it is
UploadFailedFlagKept(err) ==
  /\ storeError' = err
  /\ alertMsg' = [kind |-> "Failed to upload MSL. Please try again."]
  /\ up' = Idle
  /\ UNCHANGED <<uploading, uploadResult, timers, prev>>

\* catch: alert; finally: setUploading(false)
UploadFailed(err) ==
  /\ storeError' = err
  /\ alertMsg' = [kind |-> "Failed to upload MSL. Please try again."]
  /\ uploading' = IF up.attached THEN FALSE ELSE uploading
  /\ up' = Idle
  /\ UNCHANGED <<uploadResult, timers, prev>>

\* one turn of the delete loop: the delete of the next category and its answer
uploadMSLDelete ==
  /\ up.pc = "delete"
  /\ \E ok \in BOOLEAN :
       /\ ops' = Append(ops, DeleteOp(Head(up.categories), IF ok THEN "none" ELSE "network"))
       /\ IF ok
          THEN /\ msl_items' = DeleteCategory(msl_items, Head(up.categories))
               /\ storeError' = "none"
               /\ up' = [up EXCEPT !.categories = Tail(up.categories),
                                   !.pc = IF Tail(up.categories) = <<>> THEN "insert" ELSE "delete"]
               /\ alertMsg' = NoAlert
               /\ UNCHANGED <<uploading, uploadResult, timers, prev>>
          ELSE /\ UploadFailed("network")
               /\ UNCHANGED msl_items
  /\ UNCHANGED <<open, file, parsedItems, categorySummary, parsedProducts, parsedStores,
                 showPreview, products, stores, commits, laterVars>>

\* the bulk insert and what follows it: the result summary, the timer, finally
uploadMSLInsert ==
  /\ up.pc = "insert"
  /\ \E ok \in BOOLEAN :
       LET r == InsertRows(msl_items, InsertData(up.validItems))
       IN  /\ ops' = Append(ops, InsertOp(InsertData(up.validItems),
                                          IF ok THEN r.error ELSE "network"))
           /\ IF ok /\ r.error = "none"
              THEN /\ msl_items' = r.table
                   /\ storeError' = "none"
                   /\ uploadResult' = IF up.attached THEN ResultSummary(up.summary)
                                      ELSE uploadResult
                   /\ timers' = timers + 1
                   /\ uploading' = IF up.attached THEN FALSE ELSE uploading
                   /\ up' = Idle
                   /\ prev' = [validItems |-> up.validItems, after |-> r.table,
                               times |-> IF prev = NoPrev THEN 1 ELSE prev.times + 1]
                   /\ alertMsg' = NoAlert
              ELSE /\ UploadFailed(IF ok THEN r.error ELSE "network")
                   /\ UNCHANGED msl_items
  /\ UNCHANGED <<open, file, parsedItems, categorySummary, parsedProducts, parsedStores,
                 showPreview, products, stores, commits, laterVars>>

\* the setTimeout callback: onSuccess(); onClose()
Timeout ==
  /\ timers > 0
  /\ timers' = timers - 1
  /\ IF open = "msl"
     THEN open' = "none" /\ ResetDialog /\ up' = Detached(up)
     ELSE UNCHANGED <<open, dialogVars, up>>
  /\ storeError' = "none"
  /\ UNCHANGED <<alertMsg, tableVars, commits, prev, ops, laterVars>>

-----------------------------------------------------------------------------
(* uploadMSL of another session, on the same table *)

\* parsedItems.filter(item => item.isValid) of a file that passed parseCsv
ValidItemsOf(f) ==
  filter(MSLParseRows(Lines(f), MSLIndices(Headers(Lines(f))), 2, {}, <<>>), IsValidRow)

\* this session's state is as it was; the step shows it no alert and no error
OtherFrame ==
  /\ alertMsg' = NoAlert
  /\ storeError' = "none"
  /\ UNCHANGED <<open, dialogVars, products, stores, up, timers, commits, prev, ops,
                 upsert, upsertTimers, upsertCalls, dashVars, pageVars>>

\* the other session's click on the commit button, after its own parse of f
otherUploadMSL(files) ==
  /\ other.pc = "idle" /\ other.started < MaxOtherCommits
  /\ \E f \in files :
       /\ Len(ValidItemsOf(f)) > 0
       /\ other' = [pc |-> "delete", started |-> other.started + 1,
                    validItems |-> ValidItemsOf(f),
                    categories |-> CategoriesToUpdate(ValidItemsOf(f))]
  /\ UNCHANGED msl_items
  /\ OtherFrame

\* one turn of the other session's delete loop
otherDelete ==
  /\ other.pc = "delete"
  /\ \E ok \in BOOLEAN :
       IF ok
       THEN /\ msl_items' = DeleteCategory(msl_items, Head(other.categories))
            /\ other' = [other EXCEPT !.categories = Tail(other.categories),
                                      !.pc = IF Tail(other.categories) = <<>>
                                             THEN "insert" ELSE "delete"]
       ELSE /\ other' = OtherIdle(other.started)
            /\ UNCHANGED msl_items
  /\ OtherFrame

\* the other session's bulk insert
otherInsert ==
  /\ other.pc = "insert"
  /\ \E ok \in BOOLEAN :
       LET r == InsertRows(msl_items, InsertData(other.validItems))
       IN  /\ msl_items' = IF ok THEN r.table ELSE msl_items
           /\ other' = OtherIdle(other.started)
  /\ OtherFrame

-----------------------------------------------------------------------------
(* ProductCsvUpload.uploadProducts, StoreCsvUpload.uploadStores,
   ProductImport.importProducts *)

\* what a store call can answer: its result, an error object, or an exception
Answers == {"ok", "error", "throw"}

\* the update removes the row it matches
ProductUpdateRemoves(table, row) ==
  [error |-> "none", table |-> {p \in table : p.sku_code # row.sku_code}]

\* supabase.from('products').update({...}).eq('sku_code', sku_code)
ProductUpdate(table, row) ==
  [error |-> "none",
   table |-> {IF p.sku_code = row.sku_code
              THEN [p EXCEPT !.product_name = row.product_name,
                             !.category = row.category,
                             !.unit_price = row.price]
              ELSE p : p \in table}]

\* supabase.from('products').insert({...}); sku_code is unique
ProductInsert(table, row) ==
  IF \E p \in table : p.sku_code = row.sku_code
  THEN [error |-> "unique", table |-> table]
  ELSE [error |-> "none",
        table |-> table \cup {[sku_code |-> row.sku_code, product_name |-> row.product_name,
                               category |-> row.category, unit_price |-> row.price]}]

\* supabase.from('stores').update({...}).eq('store_code', kode).eq('created_by', user.id)
StoreUpdate(table, row) ==
  [error |-> "none",
   table |-> {IF t.store_code = row.kode_toko /\ t.created_by = CurrentUser
              THEN [t EXCEPT !.store_name = row.nama_toko, !.category = row.kategori]
              ELSE t : t \in table}]

\* supabase.from('stores').insert(storeData); store_code is unique
StoreInsert(table, row) ==
  IF \E t \in table : t.store_code = row.kode_toko
  THEN [error |-> "unique", table |-> table]
  ELSE [error |-> "none",
        table |-> table \cup {[store_code |-> row.kode_toko, store_name |-> row.nama_toko,
                               category |-> row.kategori, created_by |-> CurrentUser]}]

\* the table a call of this kind writes to
TableOf(kind) == IF kind = "store" THEN stores ELSE products

\* the store call issued for one valid row: by its action tag for the CSV
\* dialogs, always an insert for the import dialog
StoreCall(kind, row) ==
  IF kind = "store"
  THEN IF row.action = "UPDATE" THEN StoreUpdate(stores, row) ELSE StoreInsert(stores, row)
  ELSE IF kind = "product"
  THEN IF row.action = "UPDATE" THEN ProductUpdate(products, row)
       ELSE ProductInsert(products, row)
  ELSE ProductInsert(products, [sku_code |-> row.sku_code,
                                product_name |-> row.product_name,
                                category |-> row.category, price |-> row.unit_price])

\* the operation a row asks for
ActionOf(kind, row) == IF kind = "import" THEN "INSERT" ELSE row.action

\* the key of a row
KeyOf(kind, row) == IF kind = "store" THEN row.kode_toko ELSE row.sku_code

\* the click on the commit button of a dialog, up to the first await
StartUpsert(kind, parsed) ==
  /\ open = kind /\ showPreview /\ ~uploading
  /\ Len(filter(parsed, IsValidRow)) > 0
  /\ upsert.pc = "idle"
  /\ upsertCalls < MaxUpserts
  /\ upsertCalls' = upsertCalls + 1
  /\ uploading' = TRUE
  /\ upsert' = [pc |-> "run", kind |-> kind, rows |-> filter(parsed, IsValidRow),
                added |-> 0, updated |-> 0, failed |-> 0, attached |-> TRUE,
                attempts |-> <<>>]
  /\ alertMsg' = NoAlert
  /\ storeError' = "none"
  /\ UNCHANGED <<open, file, parsedItems, categorySummary, parsedProducts, parsedStores,
                 showPreview, uploadResult, tableVars, up, timers, commits, prev, ops,
                 other, upsertTimers, dashVars, pageVars>>

uploadProducts == StartUpsert("product", parsedProducts)
uploadStores == StartUpsert("store", parsedStores)
importProducts == StartUpsert("import", parsedProducts)

\* a failed row is not counted
CountedFailuresDropped(u, action, failed) ==
  [u EXCEPT !.added = IF ~failed /\ action = "INSERT" THEN @ + 1 ELSE @,
            !.updated = IF ~failed /\ action = "UPDATE" THEN @ + 1 ELSE @,
            !.rows = Tail(@),
            !.attempts = Append(@, [key |-> KeyOf(u.kind, Head(u.rows)),
                                    action |-> action,
                                    error |-> IF failed THEN "failed" ELSE "none"])]

\* a failed row ends the batch
CountedStopsAtFailure(u, action, failed) ==
  [u EXCEPT !.added = IF ~failed /\ action = "INSERT" THEN @ + 1 ELSE @,
            !.updated = IF ~failed /\ action = "UPDATE" THEN @ + 1 ELSE @,
            !.failed = IF failed THEN @ + 1 ELSE @,
            !.rows = IF failed THEN <<>> ELSE Tail(@),
            !.attempts = Append(@, [key |-> KeyOf(u.kind, Head(u.rows)),
                                    action |-> action,
                                    error |-> IF failed THEN "failed" ELSE "none"])]

\* a failed insert is counted as added
CountedFailedAsAdded(u, action, failed) ==
  [u EXCEPT !.added = IF action = "INSERT" THEN @ + 1 ELSE @,
            !.updated = IF ~failed /\ action = "UPDATE" THEN @ + 1 ELSE @,
            !.rows = Tail(@),
            !.attempts = Append(@, [key |-> KeyOf(u.kind, Head(u.rows)),
                                    action |-> action,
                                    error |-> IF failed THEN "failed" ELSE "none"])]

\* the counters after the answer to one row
Counted(u, action, failed) ==
  [u EXCEPT !.added = IF ~failed /\ action = "INSERT" THEN @ + 1 ELSE @,
            !.updated = IF ~failed /\ action = "UPDATE" THEN @ + 1 ELSE @,
            !.failed = IF failed THEN @ + 1 ELSE @,
            !.rows = Tail(@),
            !.attempts = Append(@, [key |-> KeyOf(u.kind, Head(u.rows)),
                                    action |-> action,
                                    error |-> IF failed THEN "failed" ELSE "none"])]

\* one turn of the loop: the store call for the next valid row and its answer;
\* after the last row setUploadResult, setUploading(false) and the timer
UpsertRow ==
  /\ upsert.pc = "run"
  /\ \E answer \in Answers :
       LET kind == upsert.kind
           row == Head(upsert.rows)
           r == IF answer = "ok" THEN StoreCall(kind, row)
                ELSE [error |-> answer, table |-> TableOf(kind)]
           u == Counted(upsert, ActionOf(kind, row), r.error # "none")
       IN  /\ IF kind = "store"
              THEN stores' = r.table /\ UNCHANGED products
              ELSE products' = r.table /\ UNCHANGED stores
           /\ storeError' = r.error
           /\ IF u.rows # <<>>
              THEN /\ upsert' = u
                   /\ UNCHANGED <<uploading, uploadResult, upsertTimers>>
              ELSE /\ upsert' = Idle
                   /\ uploadResult' = IF u.attached
                                      THEN [added |-> u.added, updated |-> u.updated,
                                            failed |-> u.failed]
                                      ELSE uploadResult
                   /\ uploading' = IF u.attached THEN FALSE ELSE uploading
                   /\ upsertTimers' = IF u.added > 0 \/ u.updated > 0
                                      THEN [upsertTimers EXCEPT ![kind] = @ + 1]
                                      ELSE upsertTimers
  /\ alertMsg' = NoAlert
  /\ UNCHANGED <<open, file, parsedItems, categorySummary, parsedProducts, parsedStores,
                 showPreview, msl_items, up, timers, commits, prev, ops, other,
                 upsertCalls, dashVars, pageVars>>

\* the setTimeout callback of such a call: onSuccess(); onClose() of its page
UpsertTimeout ==
  /\ \E kind \in {"product", "store", "import"} :
       /\ upsertTimers[kind] > 0
       /\ upsertTimers' = [upsertTimers EXCEPT ![kind] = @ - 1]
       /\ IF open = kind
          THEN open' = "none" /\ ResetDialog /\ upsert' = Detached(upsert)
          ELSE UNCHANGED <<open, dialogVars, upsert>>
  /\ storeError' = "none"
  /\ UNCHANGED <<alertMsg, tableVars, up, timers, commits, prev, ops, other, upsertCalls,
                 dashVars, pageVars>>

-----------------------------------------------------------------------------
(* ProductImport.parseProducts *)

PIPE == "|"

\* a line that holds something besides white space
NonBlank(line) == trim(line) # <<>>

\* the row pushed for one line of the text
ImportParseLine(line) ==
  LET parts == [k \in 1..Len(split(line, PIPE)) |-> trim(split(line, PIPE)[k])]
  IN  IF Len(parts) # 4
      THEN [sku_code |-> <<>>, product_name |-> line, category |-> <<>>,
            unit_price |-> Num(0), isValid |-> FALSE,
            error |-> "Format salah - harus 4 kolom dipisahkan dengan |"]
      ELSE LET price == parseFloat(parts[4])
               bad == \/ parts[1] = <<>> \/ parts[2] = <<>> \/ parts[3] = <<>>
                      \/ isNaN(price) \/ NumLE(price, Num(0))
           IN  [sku_code |-> parts[1], product_name |-> parts[2], category |-> parts[3],
                unit_price |-> price, isValid |-> ~bad,
                error |-> IF bad THEN "Data tidak lengkap atau harga tidak valid" ELSE ""]

\* the textarea: setProductText
setProductText(texts) ==
  /\ open = "import" /\ ~showPreview
  /\ \E t \in texts : file' = t
  /\ alertMsg' = NoAlert
  /\ storeError' = "none"
  /\ UNCHANGED <<open, parsedItems, categorySummary, parsedProducts, parsedStores,
                 showPreview, uploading, uploadResult, tableVars, up, timers,
                 commits, prev, ops, laterVars>>

\* parseProducts; the button is disabled while the text is blank
parseProducts ==
  /\ open = "import" /\ ~showPreview /\ file # NoFile /\ trim(file) # <<>>
  /\ LET lines == filter(split(trim(file), NL), NonBlank)
     IN  parsedProducts' = [k \in 1..Len(lines) |-> ImportParseLine(lines[k])]
  /\ showPreview' = TRUE
  /\ alertMsg' = NoAlert
  /\ storeError' = "none"
  /\ UNCHANGED <<open, file, parsedItems, categorySummary, parsedStores, uploading,
                 uploadResult, tableVars, up, timers, commits, prev, ops, laterVars>>

-----------------------------------------------------------------------------
(* The files offered to the dialogs *)

\* a line from its cells
Line(cells) == join(cells, COMMA)

\* a file from its header line and its data lines
File(header, rows) == join(<<header>> \o rows, NL)

\* the sequences of at most n lines of a set
LineSeqs(lineSet, n) == UNION {[1..k -> lineSet] : k \in 0..n}

MSLHeaderFull ==
  Line(<< <<"CATEGORY">>, <<"SKU_CODE">>, <<"PRODUCT_NAME">>, <<"PRIORITY">>, <<"NOTES">> >>)
\* lower case, padded, another column order, no NOTES
MSLHeaderLower ==
  Line(<< <<"sku_code">>, <<" ", "category">>, <<"product_name", " ">>, <<"priority">> >>)
MSLHeaderNoPriority ==
  Line(<< <<"CATEGORY">>, <<"SKU_CODE">>, <<"PRODUCT_NAME">> >>)
MSLHeaderNotesOnly ==
  Line(<< <<"NOTES">>, <<"SKU_CODE">> >>)

MSLParseLines ==
  {Line(<<c, k, <<"n">>, p>>) :
     c \in {<<"X">>, <<"Y">>}, k \in {<<"A">>, <<"B">>}, p \in {<<"1">>, <<"2">>}}
  \cup
  {Line(<< <<"X">>, <<"A">>, <<"n">>, <<"0">> >>),
   Line(<< <<"X">>, <<"A">>, <<"n">>, <<"1", ".", "5">> >>),
   Line(<< <<"X">>, <<"B">>, <<"n">>, <<"2", "a">> >>),
   Line(<< <<"X">>, <<"A">>, <<"n">>, <<"a">> >>),
   Line(<< <<"X">>, <<"A">>, <<>>, <<"1">> >>),
   Line(<< <<"X", "-", "A">>, <<"A">>, <<"n">>, <<"1">> >>),
   Line(<< <<"X">>, <<"A", "-", "A">>, <<"n">>, <<"1">> >>),
   Line(<< <<QUOTE, "X", QUOTE>>, <<" ", "B">>, <<QUOTE, "n", QUOTE>>, <<"3">>,
           <<QUOTE, "q", QUOTE, "\r">> >>),
   <<>>}

MSLParseFiles ==
  {File(h, rows) : h \in {MSLHeaderFull, MSLHeaderLower},
                   rows \in LineSeqs(MSLParseLines, MaxRows)}
  \cup
  {File(h, << Line(<< <<"X">>, <<"A">>, <<"n">>, <<"1">> >>) >>) :
     h \in {MSLHeaderNoPriority, MSLHeaderNotesOnly}}

ProductHeaderFull ==
  Line(<< <<"SKU_CODE">>, <<"PRODUCT_NAME">>, <<"BRAND">>, <<"CATEGORY">>, <<"PRICE">>,
          <<"DISCOUNT">> >>)
ProductHeaderNoDiscount ==
  Line(<< <<"SKU_CODE">>, <<"PRODUCT_NAME">>, <<"BRAND">>, <<"CATEGORY">>, <<"price">> >>)
ProductHeaderNoPrice ==
  Line(<< <<"SKU_CODE">>, <<"PRODUCT_NAME">>, <<"CATEGORY">>, <<"DISCOUNT">> >>)

ProductParseLines ==
  {Line(<< <<"S1">>, <<"n">>, <<"b">>, <<"c">>, <<"1", "0">>, <<"5">> >>),
   Line(<< <<"S2">>, <<"n">>, <<"b">>, <<"c">>, <<"1", "0">> >>),
   Line(<< <<"S1">>, <<"n">>, <<"b">>, <<"c">>, <<"0">>, <<"5">> >>),
   Line(<< <<"S2">>, <<"n">>, <<"b">>, <<"c">>, <<"a">>, <<"5">> >>),
   Line(<< <<"S2">>, <<"n">>, <<"b">>, <<"c">>, <<"1", "a">>, <<"1", "0", "0">> >>),
   Line(<< <<"S2">>, <<"n">>, <<"b">>, <<"c">>, <<"1", "0">>, <<"1", "5", "0">> >>),
   Line(<< <<"S2">>, <<"n">>, <<"b">>, <<"c">>, <<"1", "0">>, <<"a">> >>),
   Line(<< <<"S1">>, <<"n">>, <<"b">>, <<"c">>, <<"1", ".", "5">>, <<"-", "1">> >>),
   Line(<< <<"S3">>, <<"n">>, <<"b">>, <<"c">>, <<"-", "2">>, <<"1", "5", "0">> >>),
   Line(<< <<"S1">>, <<"n">>, <<"b">>, <<"c">> >>),
   Line(<< <<"S1">>, <<>>, <<"b">>, <<"c">>, <<"1", "0">>, <<"5">> >>),
   <<>>}

ProductParseFiles ==
  {File(h, rows) : h \in {ProductHeaderFull, ProductHeaderNoDiscount},
                   rows \in LineSeqs(ProductParseLines, MaxRows)}
  \cup
  {File(ProductHeaderNoPrice,
        << Line(<< <<"S1">>, <<"n">>, <<"b">>, <<"c">>, <<"1", "0">>, <<"5">> >>) >>)}

StoreHeaderFull ==
  Line(<< <<"KODE_TOKO">>, <<"NAMA_TOKO">>, <<"KATEGORI">>, <<"AVG_ORDER_VALUE">>,
          <<"ROUTE">> >>)
StoreHeaderShort ==
  Line(<< <<"kode_toko">>, <<"NAMA_TOKO">>, <<"KATEGORI">> >>)
StoreHeaderNoKategori ==
  Line(<< <<"KODE_TOKO">>, <<"NAMA_TOKO">>, <<"ROUTE">> >>)

StoreParseLines ==
  {Line(<< <<"T1">>, <<"n">>, <<"X">>, <<"1", "0", "0">>, <<"B">> >>),
   Line(<< <<"T2">>, <<"n">>, <<"X">> >>),
   Line(<< <<"T3">>, <<"n">>, <<"Y">>, <<"0">> >>),
   Line(<< <<"T1">>, <<"n">>, <<"X">>, <<"a">> >>),
   Line(<< <<"T2">>, <<"n">>, <<"X">>, <<"-", "5">> >>),
   Line(<< <<"T3">>, <<"n">>, <<"X">>, <<"1", "a">> >>),
   Line(<< <<"T2">>, <<>>, <<"X">>, <<"a">> >>),
   Line(<< <<QUOTE, "T1", QUOTE>>, <<"n">>, <<"X">>, <<"5">> >>),
   <<>>}

StoreParseFiles ==
  {File(h, rows) : h \in {StoreHeaderFull, StoreHeaderShort},
                   rows \in LineSeqs(StoreParseLines, MaxRows)}
  \cup
  {File(StoreHeaderNoKategori, << Line(<< <<"T1">>, <<"n">>, <<"X">> >>) >>)}

ParseFiles ==
  CASE open = "msl" -> MSLParseFiles
    [] open = "product" -> ProductParseFiles
    [] open = "store" -> StoreParseFiles
    [] OTHER -> {}

MSLCommitLines ==
  {Line(<< <<"X">>, <<"A">>, <<"n">>, <<"1">> >>),
   Line(<< <<"X">>, <<"B">>, <<"n">>, <<"2">> >>),
   Line(<< <<"Y">>, <<"B">>, <<"n">>, <<"1">>, <<"q">> >>),
   Line(<< <<"X">>, <<"A">>, <<"n">>, <<"0">> >>)}

MSLCommitFiles ==
  {File(MSLHeaderFull, rows) : rows \in LineSeqs(MSLCommitLines, MaxCommitRows)}
  \cup
  {File(h, rows) : h \in {MSLHeaderNoPriority, MSLHeaderNotesOnly},
                   rows \in {<<>>, << Line(<< <<"X">>, <<"A">>, <<"n">> >>) >>}}

ProductCommitLines ==
  {Line(<< <<"S1">>, <<"n">>, <<"b">>, <<"c">>, <<"1", "0">>, <<"5">> >>),
   Line(<< <<"S2">>, <<"n">>, <<"b">>, <<"c">>, <<"0">> >>)}

ProductCommitFiles ==
  {File(ProductHeaderFull, rows) : rows \in LineSeqs(ProductCommitLines, MaxCommitRows)}
  \cup
  {File(ProductHeaderNoPrice, << Line(<< <<"S1">>, <<"n">>, <<"c">>, <<"5">> >>) >>)}

StoreCommitLines ==
  {Line(<< <<"T1">>, <<"n">>, <<"X">>, <<"5">> >>),
   Line(<< <<"T3">>, <<"n">>, <<"Y">>, <<"a">> >>)}

StoreCommitFiles ==
  {File(StoreHeaderFull, rows) : rows \in LineSeqs(StoreCommitLines, MaxCommitRows)}
  \cup
  {File(StoreHeaderNoKategori, << Line(<< <<"T1">>, <<"n">>, <<"X">> >>) >>)}

CommitFiles ==
  CASE open = "msl" -> MSLCommitFiles
    [] open = "product" -> ProductCommitFiles
    [] open = "store" -> StoreCommitFiles
    [] OTHER -> {}

-----------------------------------------------------------------------------
(* Specifications *)

\* parsing: a dialog is opened, one file is chosen and parsed, the dialog is closed
SelectFile == file = NoFile /\ handleFileChange(ParseFiles)

NextParse ==
  \/ \E d \in {"msl", "product", "store"} : OpenDialog(d)
  \/ SelectFile
  \/ MSLparseCsv
  \/ ProductparseCsv
  \/ StoreparseCsv
  \/ onClose

SpecParse == Init /\ [][NextParse]_vars

\* parsing again after Back, with another file
NextReparse ==
  \/ \E d \in {"msl", "product", "store"} : OpenDialog(d)
  \/ handleFileChange(CommitFiles)
  \/ MSLparseCsv
  \/ ProductparseCsv
  \/ StoreparseCsv
  \/ Back
  \/ onClose

SpecReparse == Init /\ [][NextReparse]_vars

\* the MSL dialog: one file per opened dialog, parsed and committed; uploads do
\* not overlap
SelectCommitFile == file = NoFile /\ handleFileChange(CommitFiles)

\* the dialog is opened when no upload of a closed dialog is still running
OpenMSL == up.pc = "idle" /\ OpenDialog("msl")

Next ==
  \/ OpenMSL
  \/ SelectCommitFile
  \/ MSLparseCsv
  \/ onClose
  \/ uploadMSL
  \/ uploadMSLDelete
  \/ uploadMSLInsert
  \/ Timeout

Spec == Init /\ [][Next]_vars

\* the product, store and import dialogs: one input per opened dialog, parsed
\* and committed
UpsertProductLines ==
  {Line(<< <<"S1">>, <<"n">>, <<"b">>, <<"c">>, <<"5">> >>),
   Line(<< <<"S2">>, <<"n">>, <<"b">>, <<"c">>, <<"5">> >>),
   Line(<< <<"S3">>, <<"n">>, <<"b">>, <<"c">>, <<"0">> >>)}

UpsertProductFiles ==
  {File(ProductHeaderNoDiscount, rows) :
     rows \in LineSeqs(UpsertProductLines, MaxCommitRows)}

UpsertStoreLines ==
  {Line(<< <<"T1">>, <<"n">>, <<"Y">> >>),
   Line(<< <<"T2">>, <<"n">>, <<"Y">> >>),
   Line(<< <<"T3">>, <<"n">>, <<"Y">> >>)}

UpsertStoreFiles ==
  {File(StoreHeaderShort, rows) : rows \in LineSeqs(UpsertStoreLines, MaxCommitRows)}

ImportLines ==
  {<<"S1", " ", PIPE, " ", "n", PIPE, "c", PIPE, "5">>,
   <<"S2", PIPE, "n", PIPE, "c", PIPE, "5">>,
   <<"S3", PIPE, "n", PIPE, "c">>}

ImportTexts == {join(rows, NL) : rows \in LineSeqs(ImportLines, MaxCommitRows)}

OpenUpsert ==
  /\ upsert.pc = "idle"
  /\ \E d \in {"product", "store", "import"} : OpenDialog(d)

SelectUpsertFile ==
  /\ file = NoFile
  /\ \/ open = "product" /\ handleFileChange(UpsertProductFiles)
     \/ open = "store" /\ handleFileChange(UpsertStoreFiles)
     \/ setProductText(ImportTexts)

NextUpsert ==
  \/ OpenUpsert
  \/ SelectUpsertFile
  \/ ProductparseCsv
  \/ StoreparseCsv
  \/ parseProducts
  \/ uploadProducts
  \/ uploadStores
  \/ importProducts
  \/ UpsertRow
  \/ UpsertTimeout
  \/ onClose

SpecUpsert == Init /\ [][NextUpsert]_vars

\* two sessions commit to msl_items at the same time
ConcurrentLines ==
  {Line(<< <<"X">>, <<"A">>, <<"n">>, <<"1">> >>),
   Line(<< <<"Y">>, <<"B">>, <<"n">>, <<"1">> >>)}

ConcurrentFiles ==
  {File(MSLHeaderFull, rows) : rows \in LineSeqs(ConcurrentLines, MaxCommitRows)}

OtherLines ==
  {Line(<< <<"X">>, <<"A">>, <<"m">>, <<"2">> >>),
   Line(<< <<"Y">>, <<"B">>, <<"m">>, <<"1">> >>)}

OtherFiles ==
  {File(MSLHeaderFull, rows) : rows \in LineSeqs(OtherLines, MaxCommitRows)}

SelectConcurrentFile == file = NoFile /\ handleFileChange(ConcurrentFiles)

NextConcurrent ==
  \/ OpenMSL
  \/ SelectConcurrentFile
  \/ MSLparseCsv
  \/ uploadMSL
  \/ uploadMSLDelete
  \/ uploadMSLInsert
  \/ otherUploadMSL(OtherFiles)
  \/ otherDelete
  \/ otherInsert

SpecConcurrent == Init /\ [][NextConcurrent]_vars

-----------------------------------------------------------------------------
(* Overview.fetchDashboardStats, DailyRecap.fetchDailyData: the MSL achievement *)

RECURSIVE GCD(_, _)
GCD(a, b) == IF b = 0 THEN a ELSE GCD(b, a % b)

\* the number n / d, d > 0, in lowest terms
Ratio(n, d) ==
  LET g == GCD(n, d) IN [nan |-> FALSE, num |-> n \div g, den |-> d \div g]

\* a + b
Plus(a, b) == Ratio(a.num * b.den + b.num * a.den, a.den * b.den)

\* a / n, n > 0
DividedBy(a, n) == Ratio(a.num, a.den * n)

\* (mslData || []).reduce(...): the SKU set of every category that has an item
MslByCategory(mslData) ==
  [c \in {i.category : i \in mslData} |->
     {i.sku_code : i \in {j \in mslData : j.category = c}}]

\* !categoryMSL || categoryMSL.size === 0
NoCategoryMSL(mslByCategory, category) ==
  \/ category \notin DOMAIN mslByCategory
  \/ mslByCategory[category] = {}

\* boughtSkus of the items: a Set of the sku_codes that are not empty
BoughtSkus(items) ==
  {items[k].sku_code : k \in {j \in 1..Len(items) : ~Falsy(items[j].sku_code)}}

\* Array.from(boughtSkus).filter(sku => categoryMSL.has(sku)).length
MslSkusBought(boughtSkus, categoryMSL) == Cardinality(boughtSkus \cap categoryMSL)

\* (mslSkusBought / categoryMSL.size) * 100
StoreAchievement(boughtSkus, categoryMSL) ==
  Ratio(MslSkusBought(boughtSkus, categoryMSL) * 100, Cardinality(categoryMSL))

\* let totalAchievement = 0; let storeCount = 0
NoTotals == [totalAchievement |-> Num(0), storeCount |-> 0]

\* the loop body for one store: continue, or add its achievement and count it
AddStore(acc, mslByCategory, category, boughtSkus) ==
  IF NoCategoryMSL(mslByCategory, category) THEN acc
  ELSE [totalAchievement |->
          Plus(acc.totalAchievement,
               StoreAchievement(boughtSkus, mslByCategory[category])),
        storeCount |-> acc.storeCount + 1]

\* storeCount > 0 ? totalAchievement / storeCount : 0
MeanOf(acc) ==
  IF acc.storeCount > 0 THEN DividedBy(acc.totalAchievement, acc.storeCount) ELSE Num(0)

\* if (userRole !== 'admin') query = query.eq('salesman_id', user.id)
VisibleVisits(vis, s) ==
  filter(vis, LAMBDA v : s.userRole = "admin" \/ v.salesman_id = s.id)

\* the rows of a table in the order the store returns them
RECURSIVE RowsById(_)
RowsById(table) ==
  IF table = {} THEN <<>>
  ELSE LET r == CHOOSE x \in table : \A y \in table : x.id <= y.id
       IN  <<r>> \o RowsById(table \ {r})

\* from('stores').select('id, category'), of the user unless admin
StoresData(strs, s) ==
  RowsById({t \in strs : s.userRole = "admin" \/ t.created_by = s.id})

\* the visits of the store with an order, joined with their visit_orders (!inner)
OrdersData(vis, store, s) ==
  filter(VisibleVisits(vis, s),
         LAMBDA v : v.store_id = store.id /\ v.has_order /\ v.order_items # <<>>)

\* the order items of some visits, one after the other
RECURSIVE OrderItems(_)
OrderItems(vs) ==
  IF vs = <<>> THEN <<>> ELSE Head(vs).order_items \o OrderItems(Tail(vs))

\* sum of line_total
RECURSIVE LineTotal(_)
LineTotal(items) ==
  IF items = <<>> THEN 0 ELSE Head(items).line_total + LineTotal(Tail(items))

\* for (const store of storesData) { ... }; ordersOk: the orders queries returned data
RECURSIVE OverviewLoop(_, _, _, _, _, _)
OverviewLoop(storesData, mslByCategory, vis, s, ordersOk, acc) ==
  IF storesData = <<>> THEN acc
  ELSE LET store == Head(storesData)
           ordersData == IF ordersOk THEN OrdersData(vis, store, s) ELSE <<>>
       IN  OverviewLoop(Tail(storesData), mslByCategory, vis, s, ordersOk,
                        AddStore(acc, mslByCategory, store.category,
                                 BoughtSkus(OrderItems(ordersData))))

\* what a fetch can meet: no failure, one query that returns an error (its
\* data is null), or an exception
OverviewFailures == {"none", "visits", "msl_items", "stores", "orders", "throw"}
DailyFailures == {"none", "visits", "msl_items", "throw"}

\* mslAchievement of Overview
OverviewAchievement(mslData, strs, vis, s, fail) ==
  LET mslByCategory == MslByCategory(IF fail = "msl_items" THEN {} ELSE mslData)
      storesData == IF fail = "stores" THEN <<>> ELSE StoresData(strs, s)
  IN  IF DOMAIN mslByCategory # {} /\ storesData # <<>>
      THEN MeanOf(OverviewLoop(storesData, mslByCategory, vis, s, fail # "orders",
                               NoTotals))
      ELSE Num(0)

\* setStats of the catch block
StatsOnError ==
  [loading |-> FALSE, totalCall |-> 0, totalEC |-> 0, mslAchievement |-> Num(0),
   monthlySales |-> 0]

OverviewStats(mslData, strs, vis, s, fail) ==
  IF fail = "throw" THEN StatsOnError
  ELSE LET visitsData == IF fail = "visits" THEN <<>> ELSE VisibleVisits(vis, s)
       IN  [loading |-> FALSE,
            totalCall |-> Len(visitsData),
            totalEC |-> Len(filter(visitsData, LAMBDA v : v.has_order)),
            mslAchievement |-> OverviewAchievement(mslData, strs, vis, s, fail),
            monthlySales |-> LineTotal(OrderItems(visitsData))]

fetchDashboardStats ==
  /\ \E fail \in OverviewFailures :
       /\ stats' = OverviewStats(msl_items, stores, visits, session, fail)
       /\ storeError' = IF fail = "none" THEN "none" ELSE "network"
  /\ alertMsg' = NoAlert
  /\ UNCHANGED <<open, dialogVars, tableVars, up, timers, commits, prev, ops, other,
                 upsert, upsertTimers, upsertCalls, session, visits, dailyData, pageVars>>

\* the visits of the user on the date, each joined with its store (!inner)
DailyVisits(vis, strs, s) ==
  LET vv == VisibleVisits(vis, s)
  IN  [k \in 1..Len(vv) |->
         LET store == CHOOSE t \in strs : t.id = vv[k].store_id
         IN  [id |-> vv[k].id,
              store_name |-> store.store_name,
              store_code |-> store.store_code,
              store_category |-> store.category,
              has_order |-> vv[k].has_order,
              total_amount |-> LineTotal(vv[k].order_items),
              order_items |-> vv[k].order_items]]

\* `${visit.store_name}-${visit.store_code}`
StoreKey(visit) == visit.store_name \o <<"-">> \o visit.store_code

\* visits.reduce(...): one entry per key, with the category of the key's first
\* visit and the order items of all its visits
RECURSIVE StoreVisits(_, _)
StoreVisits(visitList, acc) ==
  IF visitList = <<>> THEN acc
  ELSE LET visit == Head(visitList)
           key == StoreKey(visit)
           known == \E i \in 1..Len(acc) : acc[i].key = key
           acc1 == IF known THEN acc
                   ELSE Append(acc, [key |-> key, category |-> visit.store_category,
                                     orderItems |-> <<>>])
       IN  StoreVisits(Tail(visitList),
                       [i \in 1..Len(acc1) |->
                          IF acc1[i].key = key
                          THEN [acc1[i] EXCEPT !.orderItems = @ \o visit.order_items]
                          ELSE acc1[i]])

\* for (const [storeKey, storeData] of Object.entries(storeVisits)) { ... }
RECURSIVE DailyLoop(_, _, _)
DailyLoop(entries, mslByCategory, acc) ==
  IF entries = <<>> THEN acc
  ELSE DailyLoop(Tail(entries), mslByCategory,
                 AddStore(acc, mslByCategory, Head(entries).category,
                          BoughtSkus(Head(entries).orderItems)))

\* mslAchievement of DailyRecap
DailyAchievement(mslData, visitList, fail) ==
  LET mslByCategory == MslByCategory(IF fail = "msl_items" THEN {} ELSE mslData)
  IN  IF DOMAIN mslByCategory # {} /\ Len(visitList) > 0
      THEN MeanOf(DailyLoop(StoreVisits(visitList, <<>>), mslByCategory, NoTotals))
      ELSE Num(0)

\* setDailyData of the catch block
DailyDataOnError ==
  [loading |-> FALSE, visits |-> <<>>, totalVisits |-> 0, totalEC |-> 0,
   totalSales |-> 0, mslAchievement |-> Num(0)]

DailyData(mslData, strs, vis, s, fail) ==
  IF fail \in {"visits", "throw"} THEN DailyDataOnError
  ELSE LET visitList == DailyVisits(vis, strs, s)
       IN  [loading |-> FALSE,
            visits |-> visitList,
            totalVisits |-> Len(visitList),
            totalEC |-> Len(filter(visitList, LAMBDA v : v.has_order)),
            totalSales |-> LineTotal(OrderItems(visitList)),
            mslAchievement |-> DailyAchievement(mslData, visitList, fail)]

fetchDailyData ==
  /\ \E fail \in DailyFailures :
       /\ dailyData' = DailyData(msl_items, stores, visits, session, fail)
       /\ storeError' = IF fail = "none" THEN "none" ELSE "network"
  /\ alertMsg' = NoAlert
  /\ UNCHANGED <<open, dialogVars, tableVars, up, timers, commits, prev, ops, other,
                 upsert, upsertTimers, upsertCalls, session, visits, stats, pageVars>>

\* the inputs of the achievement: the MSL catalog, the stores, the visits of
\* the date with their orders, and the user who looks at the dashboard
Catalogs == {{}, SeedMSL}

Store(id, name, code, category, by) ==
  [id |-> id, store_name |-> name, store_code |-> code, category |-> category,
   created_by |-> by]

StoreTables ==
  {{Store(1, <<"A", "-", "B">>, <<"C">>, <<"X">>, "u1"),
    Store(2, <<"A">>, code2, c2, "u1"),
    Store(3, <<"D">>, <<"E">>, <<"Y">>, "u2")} :
     code2 \in {<<"B", "-", "C">>, <<"F">>}, c2 \in {<<"X">>, <<"W">>}}

Sessions ==
  {[id |-> "u1", userRole |-> "admin"],
   [id |-> "u1", userRole |-> "salesman"],
   [id |-> "u2", userRole |-> "salesman"]}

OrderItem(sku) == [sku_code |-> sku, line_total |-> 10]

\* has_order and the visit_orders of a visit: no order, an order of one product
VisitOrders ==
  {[has_order |-> FALSE, order_items |-> <<>>],
   [has_order |-> TRUE, order_items |-> <<OrderItem(<<"A">>)>>],
   [has_order |-> TRUE, order_items |-> <<OrderItem(<<"C">>)>>]}

\* u1 visits every store, u2 the store u2 created
VisitRows ==
  {[salesman_id |-> w.by, store_id |-> w.at, has_order |-> o.has_order,
    order_items |-> o.order_items] :
     w \in {[by |-> "u1", at |-> 1], [by |-> "u1", at |-> 2], [by |-> "u1", at |-> 3],
            [by |-> "u2", at |-> 3]},
     o \in VisitOrders}

VisitTables ==
  UNION {{[k \in 1..n |-> [id |-> k] @@ rows[k]] : rows \in [1..n -> VisitRows]} :
           n \in 0..MaxVisits}

InitAchievement ==
  /\ open = "none"
  /\ file = NoFile
  /\ parsedItems = <<>>
  /\ categorySummary = <<>>
  /\ parsedProducts = <<>>
  /\ parsedStores = <<>>
  /\ showPreview = FALSE
  /\ uploading = FALSE
  /\ uploadResult = NoResult
  /\ alertMsg = NoAlert
  /\ msl_items \in Catalogs
  /\ products = SeedProducts
  /\ stores \in StoreTables
  /\ up = Idle
  /\ timers = 0
  /\ storeError = "none"
  /\ commits = 0
  /\ prev = NoPrev
  /\ ops = <<>>
  /\ other = OtherIdle(0)
  /\ upsert = Idle
  /\ upsertTimers = NoTimers
  /\ upsertCalls = 0
  /\ session \in Sessions
  /\ visits \in VisitTables
  /\ stats = NoStats
  /\ dailyData = NoDailyData
  /\ mslPage = NoMslPage
  /\ exported = NoFile
  /\ cardItems = <<>>
  /\ currentDate = Today
  /\ inFlight = <<>>

NextAchievement ==
  \/ fetchDashboardStats
  \/ fetchDailyData

SpecAchievement == InitAchievement /\ [][NextAchievement]_vars

-----------------------------------------------------------------------------
(* MSLManagement: the MSL tab, its export, and the MSL lists of the store cards *)

\* the code unit of the characters that occur in a category
CharCode(c) ==
  CASE c = "-" -> 45 [] c = "A" -> 65 [] c = "B" -> 66 [] c = "C" -> 67
    [] c = "W" -> 87 [] c = "X" -> 88 [] c = "Y" -> 89 [] c = "Z" -> 90
    [] OTHER -> 255

\* a <= b in the order of the store on text: character by character, a prefix first
RECURSIVE TextLE(_, _)
TextLE(a, b) ==
  IF a = <<>> THEN TRUE
  ELSE IF b = <<>> THEN FALSE
  ELSE IF Head(a) = Head(b) THEN TextLE(Tail(a), Tail(b))
  ELSE CharCode(Head(a)) < CharCode(Head(b))

\* the sequences that list every row of a table once
Listings(table) ==
  {s \in [1..Cardinality(table) -> table] :
     \A i, j \in 1..Cardinality(table) : i # j => s[i] # s[j]}

\* the rows in the order the table happens to hold them
OrderIgnored(table) == Listings(table)

\* .order('category').order('priority'): rows equal on both keys come in any order
OrderByCategoryPriority(table) ==
  {s \in Listings(table) :
     \A k \in 1..(Len(s) - 1) :
       IF s[k].category = s[k + 1].category
       THEN s[k].priority <= s[k + 1].priority
       ELSE TextLE(s[k].category, s[k + 1].category)}

CategoriesOf(items) == Unique([k \in 1..Len(items) |-> items[k].category])

\* MSLManagement.fetchMSLData
fetchMSLData ==
  /\ \/ \E data \in OrderByCategoryPriority(msl_items) :
          LET uniqueCategories == CategoriesOf(data)
          IN  /\ mslPage' = [mslItems |-> data,
                             categories |-> uniqueCategories,
                             activeTab |->
                               IF Len(uniqueCategories) > 0 /\ Falsy(mslPage.activeTab)
                               THEN uniqueCategories[1] ELSE mslPage.activeTab,
                             loading |-> FALSE]
              /\ storeError' = "none"
     \/ /\ mslPage' = [mslPage EXCEPT !.mslItems = <<>>, !.categories = <<>>,
                                      !.loading = FALSE]
        /\ storeError' = "network"
  /\ alertMsg' = NoAlert
  /\ UNCHANGED <<open, dialogVars, tableVars, up, timers, commits, prev, ops, other,
                 upsert, upsertTimers, upsertCalls, dashVars, exported, cardItems,
                 currentDate, inFlight>>

\* a click on the tab of a category
setActiveTab ==
  /\ \E k \in 1..Len(mslPage.categories) :
       /\ mslPage.categories[k] # mslPage.activeTab
       /\ mslPage' = [mslPage EXCEPT !.activeTab = mslPage.categories[k]]
  /\ alertMsg' = NoAlert
  /\ storeError' = "none"
  /\ UNCHANGED <<open, dialogVars, tableVars, up, timers, commits, prev, ops, other,
                 upsert, upsertTimers, upsertCalls, dashVars, exported, cardItems,
                 currentDate, inFlight>>

\* mslItems.filter(item => item.category === activeTab)
getActiveTabItems(page) ==
  LET InTab(item) == item.category = page.activeTab
  IN  filter(page.mslItems, InTab)

\* the decimal digit of a value below ten
DigitOf(n) == CHOOSE c \in Digits : DigitVal(c) = n

\* `${n}` of a non-negative integer
RECURSIVE String(_)
String(n) == IF n < 10 THEN <<DigitOf(n)>> ELSE String(n \div 10) \o <<DigitOf(n % 10)>>

\* one line of the export
ExportLine(item) ==
  item.category \o <<COMMA>> \o item.sku_code \o <<COMMA, QUOTE>> \o item.product_name
    \o <<QUOTE, COMMA>> \o String(item.priority) \o <<COMMA, QUOTE>>
    \o (IF item.notes = Null \/ item.notes = <<>> THEN <<>> ELSE item.notes)
    \o <<QUOTE>>

\* the text of the export of a list of items
csvContent(items) ==
  join(<<MSLHeaderFull>> \o [k \in 1..Len(items) |-> ExportLine(items[k])], NL)

\* exportMSL: the list of the page is written to a file
exportMSL ==
  /\ exported' = csvContent(mslPage.mslItems)
  /\ exported' # exported
  /\ alertMsg' = NoAlert
  /\ storeError' = "none"
  /\ UNCHANGED <<open, dialogVars, tableVars, up, timers, commits, prev, ops, other,
                 upsert, upsertTimers, upsertCalls, dashVars, mslPage, cardItems,
                 currentDate, inFlight>>

\* the reduce of the Stores page: the items of each category in the order received
GroupByCategory(data) ==
  LET cats == CategoriesOf(data)
  IN  [k \in 1..Len(cats) |->
         LET InCat(item) == item.category = cats[k]
         IN  [category |-> cats[k], items |-> filter(data, InCat)]]

\* fetchMSLData of the Stores page
StoresfetchMSLData ==
  /\ \/ \E data \in OrderByCategoryPriority(msl_items) :
          /\ cardItems' = GroupByCategory(data)
          /\ storeError' = "none"
     \/ /\ cardItems' = <<>>
        /\ storeError' = "network"
  /\ alertMsg' = NoAlert
  /\ UNCHANGED <<open, dialogVars, tableVars, up, timers, commits, prev, ops, other,
                 upsert, upsertTimers, upsertCalls, dashVars, mslPage, exported,
                 currentDate, inFlight>>

\* mslItems[category]?.slice(0, limit) || []
getTopMSLItems(grouped, category, limit) ==
  IF \E k \in 1..Len(grouped) : grouped[k].category = category
  THEN LET g == CHOOSE k \in 1..Len(grouped) : grouped[k].category = category
           items == grouped[g].items
       IN  SubSeq(items, 1, IF Len(items) < limit THEN Len(items) ELSE limit)
  ELSE <<>>

\* the limit of the store cards
TopLimit == 5

\* items that uploads can have left in msl_items: two of them share the text
\* category-sku, two share a priority
CatalogItems ==
  {MSLItem(<<"A", "-", "B">>, <<"C">>, <<"n">>, 1, Null),
   MSLItem(<<"A">>, <<"B", "-", "C">>, <<"n">>, 1, <<"q">>),
   MSLItem(<<"X">>, <<"A">>, <<"n">>, 12, Null),
   MSLItem(<<"X">>, <<"B">>, <<"n">>, 1, <<"q">>),
   MSLItem(<<"X">>, <<"C">>, <<"n">>, 1, Null)}

MaxItems == 3

CatalogTables == {t \in SUBSET CatalogItems : Cardinality(t) <= MaxItems}

\* files whose rows of one category are not in the order of the priorities
UnsortedFiles ==
  {File(MSLHeaderFull, rows) : rows \in
     {<<Line(<< <<"X">>, <<"A">>, <<"n">>, <<"2">> >>),
        Line(<< <<"X">>, <<"B">>, <<"n">>, <<"1">> >>)>>,
      <<Line(<< <<"Y">>, <<"A">>, <<"n">>, <<"1", "0">> >>),
        Line(<< <<"Y">>, <<"B">>, <<"n">>, <<"9">> >>)>>}}

\* the exported file, or a file written by hand, is selected
SelectCatalogFile ==
  /\ file = NoFile
  /\ handleFileChange(UnsortedFiles \cup (IF exported = NoFile THEN {} ELSE {exported}))

InitCatalog ==
  /\ open = "none"
  /\ file = NoFile
  /\ parsedItems = <<>>
  /\ categorySummary = <<>>
  /\ parsedProducts = <<>>
  /\ parsedStores = <<>>
  /\ showPreview = FALSE
  /\ uploading = FALSE
  /\ uploadResult = NoResult
  /\ alertMsg = NoAlert
  /\ msl_items \in CatalogTables
  /\ products = SeedProducts
  /\ stores = SeedStores
  /\ up = Idle
  /\ timers = 0
  /\ storeError = "none"
  /\ commits = 0
  /\ prev = NoPrev
  /\ ops = <<>>
  /\ other = OtherIdle(0)
  /\ upsert = Idle
  /\ upsertTimers = NoTimers
  /\ upsertCalls = 0
  /\ session = [id |-> CurrentUser, userRole |-> "admin"]
  /\ visits = <<>>
  /\ stats = NoStats
  /\ dailyData = NoDailyData
  /\ mslPage = NoMslPage
  /\ exported = NoFile
  /\ cardItems = <<>>
  /\ currentDate = Today
  /\ inFlight = <<>>

NextCatalog ==
  \/ fetchMSLData
  \/ setActiveTab
  \/ exportMSL
  \/ StoresfetchMSLData
  \/ OpenMSL
  \/ SelectCatalogFile
  \/ MSLparseCsv
  \/ onClose

SpecCatalog == InitCatalog /\ [][NextCatalog]_vars

-----------------------------------------------------------------------------
(* Readers of msl_items beside an upload, and two uploads of a common category *)

\* the stores and the visit of the date that the dashboard of the admin counts
RaceStores ==
  {Store(1, <<"A", "-", "B">>, <<"C">>, <<"X">>, "u1"),
   Store(3, <<"D">>, <<"E">>, <<"Y">>, "u2")}

RaceVisits ==
  << [id |-> 1, salesman_id |-> "u1", store_id |-> 1, has_order |-> TRUE,
      order_items |-> <<OrderItem(<<"A">>)>>] >>

InitRace ==
  /\ open = "none"
  /\ file = NoFile
  /\ parsedItems = <<>>
  /\ categorySummary = <<>>
  /\ parsedProducts = <<>>
  /\ parsedStores = <<>>
  /\ showPreview = FALSE
  /\ uploading = FALSE
  /\ uploadResult = NoResult
  /\ alertMsg = NoAlert
  /\ msl_items = SeedMSL
  /\ products = SeedProducts
  /\ stores = RaceStores
  /\ up = Idle
  /\ timers = 0
  /\ storeError = "none"
  /\ commits = 0
  /\ prev = NoPrev
  /\ ops = <<>>
  /\ other = OtherIdle(0)
  /\ upsert = Idle
  /\ upsertTimers = NoTimers
  /\ upsertCalls = 0
  /\ session = [id |-> CurrentUser, userRole |-> "admin"]
  /\ visits = RaceVisits
  /\ stats = NoStats
  /\ dailyData = NoDailyData
  /\ mslPage = NoMslPage
  /\ exported = NoFile
  /\ cardItems = <<>>
  /\ currentDate = Today
  /\ inFlight = <<>>

\* an upload of this session, and the dashboard and the MSL page reading the table
NextRace ==
  \/ OpenMSL
  \/ SelectConcurrentFile
  \/ MSLparseCsv
  \/ uploadMSL
  \/ uploadMSLDelete
  \/ uploadMSLInsert
  \/ fetchMSLData
  \/ fetchDashboardStats

SpecRace == InitRace /\ [][NextRace]_vars

\* the other session's files put another SKU, or the same one, into category X
MixedLines ==
  {Line(<< <<"X">>, <<"C">>, <<"m">>, <<"1">> >>),
   Line(<< <<"X">>, <<"A">>, <<"m">>, <<"2">> >>),
   Line(<< <<"Y">>, <<"B">>, <<"m">>, <<"1">> >>)}

MixedFiles ==
  {File(MSLHeaderFull, rows) : rows \in LineSeqs(MixedLines, MaxCommitRows)}

NextTwoUploads ==
  \/ OpenMSL
  \/ SelectConcurrentFile
  \/ MSLparseCsv
  \/ uploadMSL
  \/ uploadMSLDelete
  \/ uploadMSLInsert
  \/ otherUploadMSL(MixedFiles)
  \/ otherDelete
  \/ otherInsert

SpecTwoUploads == Init /\ [][NextTwoUploads]_vars

-----------------------------------------------------------------------------
(* DailyRecap: the date picker and the fetches in flight *)

Dates == {Today, Yesterday}

\* .eq('visit_date', date)
OnDate(vis, date) == filter(vis, LAMBDA v : v.visit_date = date)

\* a response is only applied when it answers the date now selected
ApplyIfCurrent(requested, current, old, new) == IF requested = current THEN new ELSE old

\* setDailyData(...) of a response: applied whatever date is selected now
ApplyResponse(requested, current, old, new) == new

RemoveAt(s, k) == SubSeq(s, 1, k - 1) \o SubSeq(s, k + 1, Len(s))

MaxInFlight == 2

\* onChange of the date input: setCurrentDate, then the effect calls fetchDailyData,
\* which runs up to its first await
setCurrentDate ==
  /\ Len(inFlight) < MaxInFlight
  /\ \E d \in Dates \ {currentDate} :
       /\ currentDate' = d
       /\ inFlight' = Append(inFlight, d)
  /\ dailyData' = [dailyData EXCEPT !.loading = TRUE]
  /\ alertMsg' = NoAlert
  /\ storeError' = "none"
  /\ UNCHANGED <<open, dialogVars, tableVars, up, timers, commits, prev, ops, other,
                 upsert, upsertTimers, upsertCalls, session, visits, stats, mslPage,
                 exported, cardItems>>

\* the rest of a call of fetchDailyData: the answers of the store arrive, for any of
\* the calls in flight
fetchDailyDataReturns ==
  /\ \E k \in 1..Len(inFlight), fail \in DailyFailures :
       /\ dailyData' =
            ApplyResponse(inFlight[k], currentDate, dailyData,
                          DailyData(msl_items, stores, OnDate(visits, inFlight[k]),
                                    session, fail))
       /\ inFlight' = RemoveAt(inFlight, k)
       /\ storeError' = IF fail = "none" THEN "none" ELSE "network"
  /\ alertMsg' = NoAlert
  /\ UNCHANGED <<open, dialogVars, tableVars, up, timers, commits, prev, ops, other,
                 upsert, upsertTimers, upsertCalls, session, visits, stats, mslPage,
                 exported, cardItems, currentDate>>

\* visits of the two dates: store 1 today, with or without an order, store 3 the
\* day before
DatedVisitTables ==
  {<< [id |-> 1, visit_date |-> Today, salesman_id |-> "u1", store_id |-> 1]
        @@ o1,
      [id |-> 2, visit_date |-> Yesterday, salesman_id |-> by, store_id |-> 3]
        @@ o2 >> :
     o1 \in VisitOrders, o2 \in VisitOrders, by \in {"u1", "u2"}}

\* the dialog has been mounted with today's date: its first fetch is in flight
InitDates ==
  /\ open = "none"
  /\ file = NoFile
  /\ parsedItems = <<>>
  /\ categorySummary = <<>>
  /\ parsedProducts = <<>>
  /\ parsedStores = <<>>
  /\ showPreview = FALSE
  /\ uploading = FALSE
  /\ uploadResult = NoResult
  /\ alertMsg = NoAlert
  /\ msl_items = SeedMSL
  /\ products = SeedProducts
  /\ stores = RaceStores
  /\ up = Idle
  /\ timers = 0
  /\ storeError = "none"
  /\ commits = 0
  /\ prev = NoPrev
  /\ ops = <<>>
  /\ other = OtherIdle(0)
  /\ upsert = Idle
  /\ upsertTimers = NoTimers
  /\ upsertCalls = 0
  /\ session \in Sessions
  /\ visits \in DatedVisitTables
  /\ stats = NoStats
  /\ dailyData = NoDailyData
  /\ mslPage = NoMslPage
  /\ exported = NoFile
  /\ cardItems = <<>>
  /\ currentDate = Today
  /\ inFlight = <<Today>>

NextDates ==
  \/ setCurrentDate
  \/ fetchDailyDataReturns

SpecDates == InitDates /\ [][NextDates]_vars

-----------------------------------------------------------------------------
(* Other sessions writing to products and stores beside a commit *)

\* another session changes a table once: it takes a record out, or it commits a
\* row of its own with uploadProducts or uploadStores
otherWrites ==
  /\ other.pc = "idle" /\ other.started < MaxOtherCommits
  /\ other' = OtherIdle(other.started + 1)
  /\ \/ \E p \in products : products' = products \ {p} /\ UNCHANGED stores
     \/ \E t \in stores : stores' = stores \ {t} /\ UNCHANGED products
     \/ /\ products' = ProductInsert(products,
                                     [sku_code |-> <<"S2">>, product_name |-> <<"m">>,
                                      category |-> <<"c">>, price |-> Num(7)]).table
        /\ products' # products
        /\ UNCHANGED stores
  /\ alertMsg' = NoAlert
  /\ storeError' = "none"
  /\ UNCHANGED <<open, dialogVars, msl_items, up, timers, commits, prev, ops, upsert,
                 upsertTimers, upsertCalls, dashVars, pageVars>>

OpenCsvUpsert ==
  /\ upsert.pc = "idle"
  /\ \E d \in {"product", "store"} : OpenDialog(d)

SelectCsvUpsertFile ==
  /\ file = NoFile
  /\ \/ open = "product" /\ handleFileChange(UpsertProductFiles)
     \/ open = "store" /\ handleFileChange(UpsertStoreFiles)

NextStale ==
  \/ OpenCsvUpsert
  \/ SelectCsvUpsertFile
  \/ ProductparseCsv
  \/ StoreparseCsv
  \/ uploadProducts
  \/ uploadStores
  \/ UpsertRow
  \/ otherWrites

SpecStale == Init /\ [][NextStale]_vars

-----------------------------------------------------------------------------
(* The four commits side by side: a dialog is left by the timer of its commit *)

\* files with rows that the parse accepts and rows it refuses
MixedValidityFiles ==
  {File(MSLHeaderFull, rows) : rows \in
     {<< Line(<< <<"X">>, <<"A">>, <<"n">>, <<"1">> >>),
         Line(<< <<"Y">>, <<"B">>, <<"n">>, <<"0">> >>) >>,
      << Line(<< <<"Y">>, <<"B">>, <<"n">>, <<"0">> >>),
         Line(<< <<"Y">>, <<"B">>, <<"n">>, <<"1">> >>) >>}}

MixedProductFiles ==
  {File(ProductHeaderNoDiscount, rows) : rows \in
     {<< Line(<< <<"S1">>, <<"n">>, <<"b">>, <<"c">>, <<"5">> >>),
         Line(<< <<"S3">>, <<"n">>, <<"b">>, <<"c">>, <<"0">> >>) >>,
      << Line(<< <<"S3">>, <<"n">>, <<"b">>, <<"c">>, <<"0">> >>),
         Line(<< <<"S2">>, <<"n">>, <<"b">>, <<"c">>, <<"5">> >>) >>}}

MixedStoreFiles ==
  {File(StoreHeaderShort, rows) : rows \in
     {<< Line(<< <<"T1">>, <<"n">>, <<"Y">> >>),
         Line(<< <<"T3">>, <<>>, <<"Y">> >>) >>,
      << Line(<< <<"T2">>, <<"n">>, <<"Y">> >>) >>}}

MixedImportTexts ==
  {join(rows, NL) : rows \in
     {<< <<"S2", PIPE, "n", PIPE, "c", PIPE, "5">>, <<"S3", PIPE, "n", PIPE, "c">> >>,
      << <<"S1", " ", PIPE, " ", "n", PIPE, "c", PIPE, "5">> >>}}

SelectMixedValidityFile ==
  /\ file = NoFile
  /\ \/ open = "msl" /\ handleFileChange(MixedValidityFiles)
     \/ open = "product" /\ handleFileChange(MixedProductFiles)
     \/ open = "store" /\ handleFileChange(MixedStoreFiles)
     \/ setProductText(MixedImportTexts)

NextCommits ==
  \/ OpenMSL
  \/ OpenUpsert
  \/ SelectMixedValidityFile
  \/ MSLparseCsv
  \/ ProductparseCsv
  \/ StoreparseCsv
  \/ parseProducts
  \/ uploadMSL
  \/ uploadMSLDelete
  \/ uploadMSLInsert
  \/ Timeout
  \/ uploadProducts
  \/ uploadStores
  \/ importProducts
  \/ UpsertRow
  \/ UpsertTimeout

SpecCommits == Init /\ [][NextCommits]_vars

\* every store call returns: a delete, an insert or the call for a row that has been
\* issued is answered (each of these steps changes the position of its commit)
SpecCommitsFair ==
  /\ SpecCommits
  /\ WF_up(uploadMSLDelete)
  /\ WF_up(uploadMSLInsert)
  /\ WF_upsert(UpsertRow)

-----------------------------------------------------------------------------
(* Properties of parsing *)

\* a step in which parseCsv passed the structural checks and opened the preview
ParseDone == ~showPreview /\ showPreview'

\* the number of line breaks of the file, surrounding whitespace apart
DataLineCount(text) ==
  Cardinality({k \in 1..Len(trim(text)) : trim(text)[k] = NL})

\* the k-th line of the file, the header being line 1
FileLine(k) == Lines(file)[k]

MSLCellsOfLine(k) == MSLCells(FileLine(k), MSLIndices(Headers(Lines(file))))
ProductValuesOfLine(k) == ValuesTrimmed(FileLine(k))
ProductCellsOfLine(k) ==
  ProductCells(ProductValuesOfLine(k), ProductIndices(Headers(Lines(file))))
StoreCellsOfLine(k) == StoreCells(FileLine(k), StoreIndices(Headers(Lines(file))))

\* C1: when the structural checks pass, each parser returns one row per line
\* after the header, and the i-th row holds the cells of the i-th data line,
\* valid or not.
C1_OneRowPerDataLine ==
  [][ParseDone =>
       /\ open = "msl" =>
            /\ Len(parsedItems') = DataLineCount(file)
            /\ \A i \in 1..Len(parsedItems') :
                 /\ parsedItems'[i].category = MSLCellsOfLine(i + 1).category
                 /\ parsedItems'[i].sku_code = MSLCellsOfLine(i + 1).sku
                 /\ parsedItems'[i].product_name = MSLCellsOfLine(i + 1).name
                 /\ parsedItems'[i].notes = MSLCellsOfLine(i + 1).notes
       /\ open = "product" =>
            /\ Len(parsedProducts') = DataLineCount(file)
            /\ \A i \in 1..Len(parsedProducts') :
                 /\ OrElse(parsedProducts'[i].sku_code, <<>>)
                      = OrElse(ProductCellsOfLine(i + 1).sku, <<>>)
                 /\ OrElse(parsedProducts'[i].product_name, <<>>)
                      = OrElse(ProductCellsOfLine(i + 1).name, <<>>)
       /\ open = "store" =>
            /\ Len(parsedStores') = DataLineCount(file)
            /\ \A i \in 1..Len(parsedStores') :
                 /\ parsedStores'[i].kode_toko = StoreCellsOfLine(i + 1).kode
                 /\ parsedStores'[i].nama_toko = StoreCellsOfLine(i + 1).nama
                 /\ parsedStores'[i].kategori = StoreCellsOfLine(i + 1).kategori
     ]_vars

\* C1 witness: a blank first data line gave an invalid first row, and the valid
\* second line is the second row
C1_Witness ==
  /\ open = "msl" /\ showPreview
  /\ Len(parsedItems) = 2
  /\ ~parsedItems[1].isValid /\ parsedItems[1].sku_code = <<>>
  /\ parsedItems[2].isValid /\ parsedItems[2].sku_code = <<"B">>


\* the required columns of the open dialog
RequiredSet ==
  CASE open = "msl" -> {MSLRequiredHeaders[k] : k \in 1..Len(MSLRequiredHeaders)}
    [] open = "product" -> {ProductRequiredHeaders[k] : k \in 1..Len(ProductRequiredHeaders)}
    [] open = "store" -> {StoreRequiredHeaders[k] : k \in 1..Len(StoreRequiredHeaders)}
    [] OTHER -> {}

\* the column names of the header line of the file
HeaderSet == {Headers(Lines(file))[k] : k \in 1..Len(Headers(Lines(file)))}

\* a step of parseCsv that did something: it alerted or it opened the preview
IsParseStep ==
  /\ open # "none" /\ file # NoFile /\ ~showPreview
  /\ open' = open /\ file' = file
  /\ alertMsg' # [kind |-> "Please select a valid CSV file"]
  /\ (alertMsg' # NoAlert \/ showPreview')

\* parseCsv stopped at the header check: the alert names exactly the missing
\* columns, no preview, the parsed state as before
RefusedForColumns ==
  /\ alertMsg'.kind = "Missing required columns"
  /\ {alertMsg'.columns[k] : k \in 1..Len(alertMsg'.columns)} = RequiredSet \ HeaderSet
  /\ ~showPreview'
  /\ UNCHANGED <<parsedItems, categorySummary, parsedProducts, parsedStores>>

\* C2 as stated: whenever the header lacks a required column, parseCsv reports
\* exactly the missing columns and changes nothing.
C2_AsStated ==
  [][IsParseStep /\ RequiredSet \ HeaderSet # {} => RefusedForColumns]_vars

\* C2 amended: when the file has at least one data line and its header lacks a
\* required column, parseCsv reports exactly the missing columns, parses no
\* row, does not open the preview and leaves the parsed state unchanged.
C2_MissingColumnsRefused ==
  [][IsParseStep /\ DataLineCount(file) >= 1 /\ RequiredSet \ HeaderSet # {}
       => RefusedForColumns]_vars

\* C2 witness: three columns reported missing while the rows of an earlier
\* parse are still held
C2_Witness ==
  /\ open = "msl" /\ ~showPreview
  /\ alertMsg.kind = "Missing required columns"
  /\ Len(alertMsg.columns) = 3
  /\ parsedItems # <<>>


DuplicateReasons ==
  {"Duplicate SKU in same category", "Duplicate SKU in file", "Duplicate store code in file"}

\* the row is invalid and its reason is the duplicate-key reason
MarkedDuplicate(item) == ~item.isValid /\ item.error.reason \in DuplicateReasons

\* the data line k has all its required fields (product: and enough cells)
MSLComplete(k) ==
  LET c == MSLCellsOfLine(k)
  IN  ~Falsy(c.category) /\ ~Falsy(c.sku) /\ ~Falsy(c.name) /\ ~Falsy(c.priorityStr)
ProductComplete(k) ==
  LET c == ProductCellsOfLine(k)
  IN  /\ Len(ProductValuesOfLine(k)) >= Len(ProductRequiredHeaders)
      /\ ~Falsy(c.sku) /\ ~Falsy(c.name) /\ ~Falsy(c.brand) /\ ~Falsy(c.category)
      /\ ~Falsy(c.priceStr)
StoreComplete(k) ==
  LET c == StoreCellsOfLine(k)
  IN  ~Falsy(c.kode) /\ ~Falsy(c.nama) /\ ~Falsy(c.kategori)

\* the key of the data line k
MSLKeyOfLine(k) == <<MSLCellsOfLine(k).category, MSLCellsOfLine(k).sku>>
MSLKeyStringOfLine(k) == MSLKey(MSLCellsOfLine(k).category, MSLCellsOfLine(k).sku)
ProductKeyOfLine(k) == ProductCellsOfLine(k).sku
StoreKeyOfLine(k) == StoreCellsOfLine(k).kode

MSLFirstFailing(k) ==
  LET c == MSLCellsOfLine(k)
      p == parseInt(c.priorityStr)
  IN  IF ~MSLComplete(k)
      THEN "Missing required fields (CATEGORY, SKU_CODE, PRODUCT_NAME, PRIORITY)"
      ELSE IF \E i \in 2..(k - 1) :
                MSLComplete(i) /\ MSLKeyStringOfLine(i) = MSLKeyStringOfLine(k)
      THEN "Duplicate SKU in same category"
      ELSE IF isNaN(p) \/ NumLT(p, Num(1))
      THEN "Invalid priority (must be positive integer)"
      ELSE ""

\* for a product row the required-field check starts with the number of cells
ProductFirstFailing(k) ==
  LET c == ProductCellsOfLine(k)
      price == parseFloat(c.priceStr)
      discount == ProductDiscount(c.discountStr)
  IN  IF Len(ProductValuesOfLine(k)) < Len(ProductRequiredHeaders)
      THEN "Insufficient columns"
      ELSE IF ~ProductComplete(k)
      THEN "Missing required fields"
      ELSE IF \E i \in 2..(k - 1) :
                ProductComplete(i) /\ ProductKeyOfLine(i) = ProductKeyOfLine(k)
      THEN "Duplicate SKU in file"
      ELSE IF isNaN(price) \/ NumLE(price, Num(0))
      THEN "Invalid price"
      ELSE IF NumLT(discount, Num(0)) \/ NumGT(discount, Num(100))
      THEN "Invalid discount (must be 0-100)"
      ELSE ""

StoreFirstFailing(k) ==
  LET c == StoreCellsOfLine(k)
      avg == parseFloat(c.avgOrder)
  IN  IF ~StoreComplete(k)
      THEN "Missing required fields (KODE_TOKO, NAMA_TOKO, KATEGORI)"
      ELSE IF \E i \in 2..(k - 1) :
                StoreComplete(i) /\ StoreKeyOfLine(i) = StoreKeyOfLine(k)
      THEN "Duplicate store code in file"
      ELSE IF c.avgOrder # <<"0">> /\ (isNaN(avg) \/ NumLT(avg, Num(0)))
      THEN "Invalid average order value"
      ELSE ""

\* the row carries this reason and no other; no reason means a valid row
CarriesOnly(item, k, reason) ==
  /\ item.isValid <=> reason = ""
  /\ item.error = IF reason = "" THEN NoError ELSE RowError(k, reason)

\* C4: every parsed row carries the reason of the first failing check, in the
\* order required fields, duplicate key, domain validator, and only that one; a
\* valid row carries none.
C4_FirstFailingCheckWins ==
  [][ParseDone =>
       /\ open = "msl" =>
            \A j \in 1..Len(parsedItems') :
              CarriesOnly(parsedItems'[j], j + 1, MSLFirstFailing(j + 1))
       /\ open = "product" =>
            \A j \in 1..Len(parsedProducts') :
              CarriesOnly(parsedProducts'[j], j + 1, ProductFirstFailing(j + 1))
       /\ open = "store" =>
            \A j \in 1..Len(parsedStores') :
              CarriesOnly(parsedStores'[j], j + 1, StoreFirstFailing(j + 1))
     ]_vars

\* C4 witness: a row that is a duplicate and has a bad priority carries the
\* duplicate reason
C4_Witness ==
  /\ open = "msl" /\ showPreview
  /\ \E j \in 1..Len(parsedItems) :
       /\ parsedItems[j].error.reason = "Duplicate SKU in same category"
       /\ (isNaN(parsedItems[j].priority) \/ NumLT(parsedItems[j].priority, Num(1)))


\* the whole cell is an integer numeral: an optional sign and digits
IsIntegerNumeral(s) ==
  LET u == IF s # <<>> /\ Head(s) \in {"-", "+"} THEN Tail(s) ELSE s
  IN  u # <<>> /\ \A k \in 1..Len(u) : u[k] \in Digits

\* the whole cell is a decimal numeral: an optional sign, digits, and
\* optionally a point and digits
IsNumeral(s) ==
  LET u == IF s # <<>> /\ Head(s) \in {"-", "+"} THEN Tail(s) ELSE s
      dots == {k \in 1..Len(u) : u[k] = DOT}
  IN  /\ \A k \in 1..Len(u) : u[k] \in Digits \cup {DOT}
      /\ Cardinality(dots) <= 1
      /\ \E k \in 1..Len(u) : u[k] \in Digits

\* the data line k passes the required-field and duplicate checks
MSLPassesKeyChecks(k) ==
  /\ MSLComplete(k)
  /\ ~\E i \in 2..(k - 1) :
        MSLComplete(i) /\ MSLKeyStringOfLine(i) = MSLKeyStringOfLine(k)
ProductPassesKeyChecks(k) ==
  /\ ProductComplete(k)
  /\ ~\E i \in 2..(k - 1) :
        ProductComplete(i) /\ ProductKeyOfLine(i) = ProductKeyOfLine(k)
StorePassesKeyChecks(k) ==
  /\ StoreComplete(k)
  /\ ~\E i \in 2..(k - 1) :
        StoreComplete(i) /\ StoreKeyOfLine(i) = StoreKeyOfLine(k)

\* PRICE is numeric and greater than 0
PriceAcceptable(priceStr) ==
  IsNumeral(priceStr) /\ NumGT(parseFloat(priceStr), Num(0))

\* DISCOUNT is omitted (then 0), or numeric and within 0..100
DiscountAcceptable(discountStr) ==
  \/ Falsy(discountStr)
  \/ /\ IsNumeral(discountStr)
     /\ NumLE(Num(0), parseFloat(discountStr))
     /\ NumLE(parseFloat(discountStr), Num(100))

\* the DISCOUNT cell of the data line k, undefined without a DISCOUNT column
DiscountCellOfLine(k) ==
  IF ProductIndices(Headers(Lines(file))).discount >= 1
  THEN ProductCellsOfLine(k).discountStr
  ELSE Undefined

\* C5: a product row that passes the required-field and duplicate checks is
\* valid exactly when PRICE is numeric and > 0 and DISCOUNT is omitted or
\* within 0..100; a bad price gives the price reason, else a bad discount the
\* discount reason.
C5_PriceAndDiscountValidated ==
  [][ParseDone /\ open = "product" =>
       \A j \in 1..Len(parsedProducts') :
         ProductPassesKeyChecks(j + 1) =>
           LET priceOK == PriceAcceptable(ProductCellsOfLine(j + 1).priceStr)
               discountOK == DiscountAcceptable(DiscountCellOfLine(j + 1))
           IN  /\ parsedProducts'[j].isValid <=> (priceOK /\ discountOK)
               /\ ~priceOK => parsedProducts'[j].error.reason = "Invalid price"
               /\ (priceOK /\ ~discountOK) =>
                    parsedProducts'[j].error.reason = "Invalid discount (must be 0-100)"
     ]_vars

\* C6: an MSL row that passes the required-field and duplicate checks is valid
\* exactly when PRIORITY is an integer numeral of value >= 1; otherwise it
\* carries the priority reason.
C6_PriorityIsPositiveInteger ==
  [][ParseDone /\ open = "msl" =>
       \A j \in 1..Len(parsedItems') :
         MSLPassesKeyChecks(j + 1) =>
           LET priorityStr == MSLCellsOfLine(j + 1).priorityStr
               priorityOK == /\ IsIntegerNumeral(priorityStr)
                             /\ NumLE(Num(1), parseInt(priorityStr))
           IN  /\ parsedItems'[j].isValid <=> priorityOK
               /\ ~priorityOK => parsedItems'[j].error.reason
                                   = "Invalid priority (must be positive integer)"
     ]_vars

\* C7: a valid product or store row is tagged UPDATE exactly when its key is in
\* the snapshot of existing keys fetched by this parse (empty when the fetch
\* failed), INSERT otherwise; MSL rows carry no tag.
C7_ActionTagFollowsSnapshot ==
  [][ParseDone =>
       /\ open = "product" =>
            \E ok \in BOOLEAN :
              \A j \in 1..Len(parsedProducts') :
                parsedProducts'[j].isValid =>
                  /\ parsedProducts'[j].action \in {"INSERT", "UPDATE"}
                  /\ parsedProducts'[j].action = "UPDATE"
                       <=> parsedProducts'[j].sku_code \in SelectSkuCodes(ok)
       /\ open = "store" =>
            \E ok \in BOOLEAN :
              \A j \in 1..Len(parsedStores') :
                parsedStores'[j].isValid =>
                  /\ parsedStores'[j].action \in {"INSERT", "UPDATE"}
                  /\ parsedStores'[j].action = "UPDATE"
                       <=> parsedStores'[j].kode_toko \in SelectStoreCodes(ok)
       /\ open = "msl" =>
            \A j \in 1..Len(parsedItems') : "action" \notin DOMAIN parsedItems'[j]
     ]_vars

\* C7 witness: one valid store row tagged UPDATE (a store of the user) and one
\* tagged INSERT although another user's store has that code
C7_Witness ==
  /\ open = "store" /\ showPreview
  /\ \E i \in 1..Len(parsedStores), j \in 1..Len(parsedStores) :
       /\ parsedStores[i].isValid /\ parsedStores[i].action = "UPDATE"
       /\ parsedStores[j].isValid /\ parsedStores[j].action = "INSERT"
       /\ \E t \in stores : t.store_code = parsedStores[j].kode_toko


-----------------------------------------------------------------------------
(* Properties of the MSL commit *)

\* the rows of a category in a table
OfCategory(table, c) == {t \in table : t.category = c}

\* the categories of the valid rows of the running upload
Touched ==
  IF up.pc = "idle" THEN {}
  ELSE {up.validItems[k].category : k \in 1..Len(up.validItems)}

\* the step in which the bulk insert of the running upload succeeded
InsertSucceeded == up.pc = "insert" /\ timers' = timers + 1

\* C8: after an upload whose deletes and insert all succeeded, each category
\* of the valid rows holds exactly the valid rows of that category.
C8_TouchedCategoriesReplaced ==
  [][InsertSucceeded =>
       \A c \in Touched :
         OfCategory(msl_items', c) =
           {[category |-> c,
             sku_code |-> up.validItems[k].sku_code,
             product_name |-> up.validItems[k].product_name,
             priority |-> up.validItems[k].priority.num,
             notes |-> IF up.validItems[k].notes = <<>> THEN Null
                       ELSE up.validItems[k].notes] :
              k \in {n \in 1..Len(up.validItems) : up.validItems[n].category = c}}
     ]_vars

\* C8 witness: an upload succeeded, the seeded items of category X are gone and
\* a row of the file is in their place
C8_Witness ==
  /\ open = "msl" /\ timers > 0
  /\ OfCategory(SeedMSL, <<"X">>) \cap msl_items = {}
  /\ \E t \in msl_items : t.category = <<"X">> /\ t.product_name = <<"n">>

C10_SecondCommitSameTable ==
  [][(/\ up.pc = "insert" /\ up'.pc = "idle"
      /\ prev # NoPrev /\ prev.validItems = up.validItems
      /\ storeError' # "network")
       => /\ storeError' = "none"
          /\ msl_items' = prev.after
          /\ \A t1 \in msl_items', t2 \in msl_items' :
               (t1.category = t2.category /\ t1.sku_code = t2.sku_code) => t1 = t2
     ]_vars

\* C10 witness: the same rows were committed twice in succession, both with
\* success
C10_Witness ==
  /\ prev # NoPrev /\ prev.times = 2
  /\ msl_items = prev.after
  /\ storeError = "none" /\ up.pc = "idle"

-----------------------------------------------------------------------------
(* The order of the store operations of uploadMSL *)

\* the number of deletes among the operations issued
DeleteCount == Cardinality({i \in 1..Len(ops) : ops[i].op = "delete"})

\* the place of the first row of a category among the valid rows of the
\* running upload
FirstRowOf(c) ==
  CHOOSE k \in 1..Len(up.validItems) :
    /\ up.validItems[k].category = c
    /\ \A j \in 1..(k - 1) : up.validItems[j].category # c

-----------------------------------------------------------------------------
(* Failures of uploadMSL *)

FailedAlert == [kind |-> "Failed to upload MSL. Please try again."]

\* the step in which a delete of the running upload returned an error
DeleteFailed == up.pc = "delete" /\ up'.pc = "idle"

\* the step in which the bulk insert of the running upload returned an error
InsertFailed == up.pc = "insert" /\ up'.pc = "idle" /\ storeError' # "none"

\* the last operation issued returned an error
LastOpFailed == ops # <<>> /\ ops[Len(ops)].error # "none"

\* C13: when a delete fails the upload ends: the failure is alerted, no timer
\* for onSuccess is set, the table is left as the earlier deletes made it (the
\* categories deleted before are empty), and no further operation is issued by
\* this call.
C13_DeleteFailureStops ==
  [][/\ DeleteFailed =>
          /\ alertMsg' = FailedAlert
          /\ timers' = timers
          /\ uploadResult' = uploadResult
          /\ msl_items' = msl_items
          /\ ops' = Append(ops, DeleteOp(Head(up.categories), storeError'))
          /\ \A i \in 1..Len(ops) :
               /\ ops[i].op = "delete"
               /\ OfCategory(msl_items', ops[i].category) = {}
     /\ (LastOpFailed /\ ops' # ops) => (ops' = <<>> /\ up.pc = "idle" /\ up'.pc = "delete")
    ]_vars

\* C13 witness: the second delete of an upload failed after the first had
\* emptied a category that held seeded items
C13_Witness ==
  /\ Len(ops) = 2
  /\ ops[1].op = "delete" /\ ops[1].error = "none"
  /\ ops[2].op = "delete" /\ ops[2].error # "none"
  /\ alertMsg = FailedAlert
  /\ OfCategory(msl_items, ops[1].category) = {}
  /\ OfCategory(SeedMSL, ops[1].category) # {}
  /\ OfCategory(msl_items, ops[2].category) # {}

\* C14: when every delete succeeded and the insert fails, every category of
\* the valid rows is left empty, the failure is alerted and no timer for
\* onSuccess is set.
C14_InsertFailureLeavesEmpty ==
  [][InsertFailed =>
       /\ \A c \in Touched : OfCategory(msl_items', c) = {}
       /\ msl_items' = msl_items
       /\ \A i \in 1..Len(ops) : ops[i].op = "delete" /\ ops[i].error = "none"
       /\ {ops[i].category : i \in 1..Len(ops)} = Touched
       /\ alertMsg' = FailedAlert
       /\ timers' = timers
       /\ uploadResult' = uploadResult
    ]_vars

\* C14 witness: the insert of an upload failed and a category that held seeded
\* items is empty
C14_Witness ==
  /\ Len(ops) >= 2
  /\ ops[Len(ops)].op = "insert" /\ ops[Len(ops)].error # "none"
  /\ alertMsg = FailedAlert
  /\ \A i \in 1..(Len(ops) - 1) : OfCategory(msl_items, ops[i].category) = {}
  /\ OfCategory(SeedMSL, ops[1].category) # {}
  /\ up.pc = "idle" /\ timers = 0

-----------------------------------------------------------------------------
(* The table under concurrent uploads *)

\* C12: no two rows of msl_items have the same (category, sku_code), whatever
\* uploads of the two sessions ran, overlapped or failed.
C12_KeyUnique ==
  \A t1 \in msl_items, t2 \in msl_items :
    (t1.category = t2.category /\ t1.sku_code = t2.sku_code) => t1 = t2

\* C12 witness: this session's insert was refused because the other session
\* had inserted a row of the same key between this session's delete and insert
C12_Witness ==
  /\ storeError = "unique"
  /\ ops # <<>> /\ ops[Len(ops)].op = "insert"
  /\ \E r \in ops[Len(ops)].rows, t \in msl_items :
       /\ r.category = t.category /\ r.sku_code = t.sku_code
       /\ r # t /\ t.product_name = <<"m">>

-----------------------------------------------------------------------------
(* The row-by-row commits of the product, store and import dialogs *)

\* the parsed rows of the dialog that is open
ParsedOfDialog == IF open = "store" THEN parsedStores ELSE parsedProducts

\* a call starts
UpsertStarts == upsert.pc = "idle" /\ upsert'.pc = "run"

\* the store answers the call for the row in hand
UpsertAnswered ==
  /\ upsert.pc = "run"
  /\ upsert'.pc = "idle" \/ Len(upsert'.rows) < Len(upsert.rows)

\* the call ends with the answer to its last row
UpsertEnds == upsert.pc = "run" /\ upsert'.pc = "idle"

\* the attempt made in this step
ThisAttempt ==
  [key |-> KeyOf(upsert.kind, Head(upsert.rows)),
   action |-> IF upsert.kind = "import" THEN "INSERT" ELSE Head(upsert.rows).action,
   error |-> IF storeError' = "none" THEN "none" ELSE "failed"]

\* how many attempts of a log asked for an action and ended so
CountOf(log, action, error) ==
  Cardinality({i \in 1..Len(log) : log[i].action = action /\ log[i].error = error})

CountFailed(log) == Cardinality({i \in 1..Len(log) : log[i].error # "none"})

\* C15: a call takes the valid rows of the dialog in file order, makes one
\* store call per row whatever the earlier answers were, and ends with
\* added = successful inserts, updated = successful updates, failed = the
\* other rows, together the number of valid rows.
C15_EveryValidRowOnce ==
  [][/\ UpsertStarts =>
          /\ upsert'.rows = filter(ParsedOfDialog, IsValidRow)
          /\ upsert'.attempts = <<>>
          /\ upsert'.added = 0 /\ upsert'.updated = 0 /\ upsert'.failed = 0
     /\ (UpsertAnswered /\ ~UpsertEnds) =>
          /\ upsert'.rows = Tail(upsert.rows)
          /\ upsert'.attempts = Append(upsert.attempts, ThisAttempt)
          /\ upsert'.added = CountOf(upsert'.attempts, "INSERT", "none")
          /\ upsert'.updated = CountOf(upsert'.attempts, "UPDATE", "none")
          /\ upsert'.failed = CountFailed(upsert'.attempts)
     /\ (UpsertEnds /\ upsert.attached) =>
          LET log == Append(upsert.attempts, ThisAttempt)
              valid == filter(ParsedOfDialog, IsValidRow)
          IN  /\ Len(upsert.rows) = 1
              /\ Len(log) = Len(valid)
              /\ \A i \in 1..Len(log) : log[i].key = KeyOf(upsert.kind, valid[i])
              /\ uploadResult'.added = CountOf(log, "INSERT", "none")
              /\ uploadResult'.updated = CountOf(log, "UPDATE", "none")
              /\ uploadResult'.failed = CountFailed(log)
              /\ uploadResult'.added + uploadResult'.updated + uploadResult'.failed
                   = Len(valid)
    ]_vars

\* C15 witness: a product call of two valid rows ended with one row added and
\* one failed, in a file that also holds no other valid row
C15_Witness ==
  /\ open = "product" /\ upsert.pc = "idle" /\ ~uploading
  /\ uploadResult = [added |-> 1, updated |-> 0, failed |-> 1]
  /\ Len(filter(parsedProducts, IsValidRow)) = 2

\* C16: the step in which a row fails changes no table and raises no alert;
\* it adds one to failed only, and the call goes on with the rows that remain.
C16_FailureIsCountedOnly ==
  [][(UpsertAnswered /\ storeError' # "none") =>
       /\ products' = products /\ stores' = stores
       /\ alertMsg' = NoAlert
       /\ IF Len(upsert.rows) > 1
          THEN /\ upsert'.pc = "run"
               /\ upsert'.rows = Tail(upsert.rows)
               /\ upsert'.failed = upsert.failed + 1
               /\ upsert'.added = upsert.added /\ upsert'.updated = upsert.updated
          ELSE /\ upsert'.pc = "idle"
               /\ upsert.attached =>
                    uploadResult' = [added |-> upsert.added, updated |-> upsert.updated,
                                     failed |-> upsert.failed + 1]
    ]_vars

\* C16 witness: the first row of a product call was inserted, the second, an
\* update, failed, and the inserted row is in the table
C16_Witness ==
  /\ open = "product" /\ upsert.pc = "idle"
  /\ uploadResult = [added |-> 1, updated |-> 0, failed |-> 1]
  /\ Len(parsedProducts) = 2
  /\ parsedProducts[1].isValid /\ parsedProducts[1].action = "INSERT"
  /\ parsedProducts[2].isValid /\ parsedProducts[2].action = "UPDATE"
  /\ \E p \in products : p.sku_code = parsedProducts[1].sku_code

\* C17: no step of the product, store and import dialogs removes a SKU code
\* from products or a store code from stores.
C17_NoRecordRemoved ==
  [][/\ \A p \in products : \E q \in products' : q.sku_code = p.sku_code
     /\ \A t \in stores : \E q \in stores' : q.store_code = t.store_code
    ]_vars

\* C17 witness: a product was updated by a commit and another one inserted
C17_Witness ==
  /\ \E p \in products : p.sku_code = <<"S1">> /\ p.product_name = <<"n">>
  /\ \E p \in products : p.sku_code = <<"S2">>
  /\ \E t \in stores : t.store_code = <<"T3">>

-----------------------------------------------------------------------------
(* Properties of the achievement *)

\* a step in which the fetch got an answer from every query
OverviewFetched == fetchDashboardStats /\ storeError' = "none"
DailyFetched == fetchDailyData /\ storeError' = "none"

\* the MSL of a category: the SKU codes of its items
MSLOf(c) == {i.sku_code : i \in {j \in msl_items : j.category = c}}

\* the stores and the visits (as indices of the table) that the user's
\* queries cover
MyStores == {t \in stores : session.userRole = "admin" \/ t.created_by = session.id}
MyVisits ==
  {k \in 1..Len(visits) : session.userRole = "admin" \/ visits[k].salesman_id = session.id}
VisitedStores == {t \in stores : \E k \in MyVisits : visits[k].store_id = t.id}

\* the SKU codes ordered in any of these visits
SkusOfVisits(ks) ==
  UNION {{visits[k].order_items[j].sku_code : j \in 1..Len(visits[k].order_items)} :
           k \in ks}

\* what a store bought, for Overview (visits with an order) and for DailyRecap
OverviewBought(t) ==
  SkusOfVisits({k \in MyVisits : visits[k].store_id = t.id /\ visits[k].has_order})
DailyBought(t) == SkusOfVisits({k \in MyVisits : visits[k].store_id = t.id})

\* the table visits without the visits of a store
WithoutStore(vis, id) == filter(vis, LAMBDA v : v.store_id # id)

\* no two stores have the same store key
DistinctKeys == \A s \in stores, t \in stores : StoreKey(s) = StoreKey(t) => s = t

RECURSIVE SumOf(_)
SumOf(f) ==
  IF DOMAIN f = {} THEN 0
  ELSE LET x == CHOOSE y \in DOMAIN f : TRUE
       IN  f[x] + SumOf([y \in DOMAIN f \ {x} |-> f[y]])

RECURSIVE ProductOf(_)
ProductOf(f) ==
  IF DOMAIN f = {} THEN 1
  ELSE LET x == CHOOSE y \in DOMAIN f : TRUE
       IN  f[x] * ProductOf([y \in DOMAIN f \ {x} |-> f[y]])

\* r is the unweighted mean, over the stores of S, of
\* |bought[t] \cap MSL| / |MSL| * 100 for the MSL of the store's category, and
\* 0 when S is empty; every store of S has a category with an MSL
IsMean(r, S, bought) ==
  IF S = {} THEN r = Num(0)
  ELSE LET size == [t \in S |-> Cardinality(MSLOf(t.category))]
           K == ProductOf(size)
           total == SumOf([t \in S |->
                             100 * Cardinality(bought[t] \cap MSLOf(t.category))
                                 * (K \div size[t])])
       IN  ~r.nan /\ r.num * K * Cardinality(S) = total * r.den

\* the score of Overview and of DailyRecap with a store and its visits removed
OverviewWithout(t) ==
  OverviewAchievement(msl_items, stores \ {t}, WithoutStore(visits, t.id), session, "none")
DailyWithout(t) ==
  DailyAchievement(msl_items,
                   DailyVisits(WithoutStore(visits, t.id), stores, session), "none")

\* C18: a store whose category has no MSL is excluded from the achievement:
\* the score a fetch shows equals the score computed with that store and its
\* visits removed from the input, in Overview and in DailyRecap.
C18_StoreWithoutMSLExcluded ==
  [][/\ OverviewFetched =>
          \A t \in stores :
             MSLOf(t.category) = {} => stats'.mslAchievement = OverviewWithout(t)
     /\ DailyFetched =>
          \A t \in stores :
             MSLOf(t.category) = {} => dailyData'.mslAchievement = DailyWithout(t)
    ]_vars

\* the exclusion as far as it holds: in Overview always, in DailyRecap when no
\* two stores have the same store key
ExclusionWithDistinctKeys ==
  [][/\ OverviewFetched =>
          \A t \in stores :
             MSLOf(t.category) = {} => stats'.mslAchievement = OverviewWithout(t)
     /\ DailyFetched /\ DistinctKeys =>
          \A t \in stores :
             MSLOf(t.category) = {} => dailyData'.mslAchievement = DailyWithout(t)
    ]_vars

\* C19: the achievement a fetch shows is the unweighted mean, over the included
\* stores (Overview: the user's stores; DailyRecap: the stores the user
\* visited; in both, those whose category has an MSL), of the share of the
\* category's MSL that the store bought, times 100, and it is 0 when no store
\* is included.
C19_MeanOverIncludedStores ==
  [][/\ OverviewFetched =>
          IsMean(stats'.mslAchievement,
                 {t \in MyStores : MSLOf(t.category) # {}},
                 [t \in MyStores |-> OverviewBought(t)])
     /\ DailyFetched =>
          IsMean(dailyData'.mslAchievement,
                 {t \in VisitedStores : MSLOf(t.category) # {}},
                 [t \in VisitedStores |-> DailyBought(t)])
    ]_vars

\* the mean as far as it holds
MeanWithDistinctKeys ==
  [][/\ OverviewFetched =>
          IsMean(stats'.mslAchievement,
                 {t \in MyStores : MSLOf(t.category) # {}},
                 [t \in MyStores |-> OverviewBought(t)])
     /\ DailyFetched /\ DistinctKeys =>
          IsMean(dailyData'.mslAchievement,
                 {t \in VisitedStores : MSLOf(t.category) # {}},
                 [t \in VisitedStores |-> DailyBought(t)])
    ]_vars

\* the entries DailyRecap forms of the visits it shows are one per store of
\* ts, each with the store's category and the SKUs of all its visits
OneEntryPerStore(entries, ts) ==
  /\ Len(entries) = Cardinality(ts)
  /\ \A t \in ts :
       \E i \in 1..Len(entries) :
          /\ entries[i].category = t.category
          /\ BoughtSkus(entries[i].orderItems) = DailyBought(t)

\* C20: every distinct store is one entry of the aggregate: Overview goes
\* through each of the user's stores once, with the SKUs of all its visits with
\* an order; DailyRecap forms one entry per visited store, with the SKUs of all
\* its visits, and no entry holds the visits of two stores.
C20_OneEntryPerDistinctStore ==
  [][/\ OverviewFetched =>
          LET storesData == StoresData(stores, session)
          IN  /\ Len(storesData) = Cardinality(MyStores)
              /\ \A t \in MyStores :
                   \E i \in 1..Len(storesData) :
                      /\ storesData[i].id = t.id
                      /\ BoughtSkus(OrderItems(OrdersData(visits, storesData[i], session)))
                           = OverviewBought(t)
     /\ DailyFetched =>
          OneEntryPerStore(StoreVisits(dailyData'.visits, <<>>), VisitedStores)
    ]_vars

\* the entries as far as they are one per store
EntriesWithDistinctKeys ==
  [][DailyFetched /\ DistinctKeys =>
       OneEntryPerStore(StoreVisits(dailyData'.visits, <<>>), VisitedStores)]_vars

\* with distinct keys: a store visited twice is one entry with the SKUs of both
\* visits, beside the entry of another store
TwoVisitsOneEntry ==
  /\ DistinctKeys
  /\ ~dailyData.loading /\ Len(dailyData.visits) = 2 /\ session.userRole = "admin"
  /\ visits[1].store_id = 1 /\ visits[2].store_id = 1
  /\ visits[1].order_items # visits[2].order_items
  /\ visits[1].has_order /\ visits[2].has_order
  /\ dailyData.mslAchievement = Num(100)

-----------------------------------------------------------------------------
(* The MSL export and the lists on display *)

\* the rows of the list of the page have different texts category-sku
DistinctJoinedKeys(items) ==
  \A i, j \in 1..Len(items) :
    i # j => MSLKey(items[i].category, items[i].sku_code)
               # MSLKey(items[j].category, items[j].sku_code)

\* the step that parses the export of the list the page holds
ParseOfExport ==
  MSLparseCsv /\ file = exported /\ exported = csvContent(mslPage.mslItems)

AllValid(parsed) == \A k \in 1..Len(parsed) : parsed[k].isValid

\* C21: the parse of the export of any list of MSL items has as many valid rows as
\* the list has items, and no invalid row
C21_ExportParsesBack ==
  [][ParseOfExport =>
       /\ Len(filter(parsedItems', IsValidRow)) = Len(mslPage.mslItems)
       /\ AllValid(parsedItems')]_vars

\* the same for lists whose items have different texts category-sku
ExportOfDistinctKeysParsesBack ==
  [][(ParseOfExport /\ DistinctJoinedKeys(mslPage.mslItems)) =>
       /\ Len(filter(parsedItems', IsValidRow)) = Len(mslPage.mslItems)
       /\ AllValid(parsedItems')]_vars

\* an export with an item of two digits of priority has been parsed
ExportParsedBack ==
  /\ showPreview /\ file = exported /\ exported = csvContent(mslPage.mslItems)
  /\ Len(parsedItems) = 3 /\ AllValid(parsedItems)
  /\ \E k \in 1..3 : parsedItems[k].priority = Num(12)

\* two items of the catalog are both stored, and the parse of the export refuses one
ExportRowRefused ==
  /\ showPreview /\ file = exported /\ exported = csvContent(mslPage.mslItems)
  /\ \E k \in 1..Len(parsedItems) : ~parsedItems[k].isValid

AscendingParsed(items) ==
  \A k \in 1..(Len(items) - 1) : NumLE(items[k].priority, items[k + 1].priority)

AscendingRows(items) ==
  \A k \in 1..(Len(items) - 1) : items[k].priority <= items[k + 1].priority

\* C22: the items of each category are in ascending order of priority in the summary
\* of a parse, in every tab of the MSL page and on the store cards
C22_AscendingPriorityPerCategory ==
  /\ \A k \in 1..Len(categorySummary) : AscendingParsed(categorySummary[k].items)
  /\ \A k \in 1..Len(mslPage.categories) :
       AscendingRows(getActiveTabItems([mslPage EXCEPT !.activeTab = mslPage.categories[k]]))
  /\ \A k \in 1..Len(cardItems) :
       AscendingRows(getTopMSLItems(cardItems, cardItems[k].category, TopLimit))

\* a file with the rows of a category in descending order is summarised, and the page
\* and the cards hold a category with two different priorities
C22_Witness ==
  /\ showPreview /\ file \in UnsortedFiles
  /\ Len(categorySummary) = 1 /\ categorySummary[1].count = 2
  /\ mslPage.activeTab = <<"X">>
  /\ \E i, j \in 1..Len(getActiveTabItems(mslPage)) :
       getActiveTabItems(mslPage)[i].priority < getActiveTabItems(mslPage)[j].priority
  /\ \E i, j \in 1..Len(getTopMSLItems(cardItems, <<"X">>, TopLimit)) :
       getTopMSLItems(cardItems, <<"X">>, TopLimit)[i].priority
         < getTopMSLItems(cardItems, <<"X">>, TopLimit)[j].priority

-----------------------------------------------------------------------------
(* Readers and writers of msl_items beside an upload *)

\* the categories an upload replaces
TouchedBy(validItems) == {validItems[k].category : k \in 1..Len(validItems)}

HasCategory(table, c) == \E i \in table : i.category = c

ListHasCategory(items, c) == \E k \in 1..Len(items) : items[k].category = c

WithoutCategories(table, cs) == {i \in table : i.category \notin cs}

\* C23: a read of msl_items taken while an upload is between its deletes and its
\* insert finds no item in the categories of the upload: the list of the MSL page
\* has none, and the achievement is the one of the table without these categories
C23_ReaderSeesTouchedCategoryEmpty ==
  [][(up.pc = "insert" /\ storeError' = "none") =>
       /\ fetchMSLData =>
            \A c \in TouchedBy(up.validItems) : ~ListHasCategory(mslPage'.mslItems, c)
       /\ fetchDashboardStats =>
            stats'.mslAchievement =
              OverviewAchievement(WithoutCategories(msl_items, TouchedBy(up.validItems)),
                                  stores, visits, session, "none")]_vars

\* C23 witness: one upload ran and succeeded; its category had items before and has
\* items now, the MSL page holds a list without it and the dashboard an achievement
\* that counts its store as a store without MSL
C23_Witness ==
  /\ up = Idle /\ commits = 1 /\ prev # NoPrev
  /\ \E c \in TouchedBy(prev.validItems) :
       LET gap == OverviewAchievement(WithoutCategories(SeedMSL, {c}), stores, visits,
                                      session, "none")
       IN  /\ HasCategory(SeedMSL, c) /\ HasCategory(msl_items, c)
           /\ mslPage.mslItems # <<>> /\ ~ListHasCategory(mslPage.mslItems, c)
           /\ ~stats.loading /\ stats.mslAchievement = gap
           /\ gap # Num(0)
           /\ gap # OverviewAchievement(SeedMSL, stores, visits, session, "none")
           /\ gap # OverviewAchievement(msl_items, stores, visits, session, "none")

InCategory(table, c) == {i \in table : i.category = c}

\* the insert of the other session succeeds after an upload of this session ended well
OtherWritesLast ==
  otherInsert /\ msl_items' # msl_items /\ up = Idle /\ prev # NoPrev

\* the insert of this session succeeds after the upload of the other session ended
ThisWritesLast ==
  uploadMSLInsert /\ msl_items' # msl_items /\ other.pc = "idle" /\ other.started > 0

\* C24: when the second of two uploads has written, each category of both uploads
\* holds the set of the upload that wrote last, no row of the other upload
C24_LastWriterWins ==
  [][/\ OtherWritesLast =>
          \A c \in TouchedBy(other.validItems) \cap TouchedBy(prev.validItems) :
            InCategory(msl_items', c) = InCategory(InsertData(other.validItems), c)
     /\ ThisWritesLast =>
          \A c \in TouchedBy(up.validItems) :
            InCategory(msl_items', c) = InCategory(InsertData(up.validItems), c)]_vars

\* what the insert of an upload does: its rows are added to the rows the table holds
InsertAddsToWhatIsThere ==
  [][/\ (otherInsert /\ msl_items' # msl_items) =>
          msl_items' = msl_items \cup InsertData(other.validItems)
     /\ (uploadMSLInsert /\ msl_items' # msl_items) =>
          msl_items' = msl_items \cup InsertData(up.validItems)]_vars

\* both uploads ended and a category holds rows of both
MixtureOfTwoUploads ==
  /\ up = Idle /\ prev # NoPrev /\ other.pc = "idle" /\ other.started = 1
  /\ \E c \in TouchedBy(prev.validItems) :
       /\ InCategory(InsertData(prev.validItems), c) \subseteq msl_items
       /\ \E i \in InCategory(msl_items, c) : i.product_name = <<"m">>

\* what a successful fetch of a date shows
DataOf(date) == DailyData(msl_items, stores, OnDate(visits, date), session, "none")

\* C25: the response of a fetch that a later fetch has superseded is applied like any
\* other: whatever arrives sets the data on display, so the data of the response
\* that arrives last stays
C25_SupersededResponseApplied ==
  [][(fetchDailyDataReturns /\ storeError' = "none") =>
       \E k \in 1..Len(inFlight) :
         /\ inFlight' = RemoveAt(inFlight, k)
         /\ dailyData' = DataOf(inFlight[k])]_vars

\* C25 witness: nothing is in flight, and the data on display are those of the day
\* that is no longer selected
C25_Witness ==
  /\ inFlight = <<>>
  /\ currentDate = Yesterday
  /\ dailyData = DataOf(Today)
  /\ dailyData # DataOf(Yesterday)
  /\ dailyData # DailyDataOnError

\* C26: for the same user, role, date, stores, visits and MSL the achievement of
\* Overview is the achievement of DailyRecap
C26_SameAchievementOnBothScreens ==
  [][OverviewFetched =>
       stats'.mslAchievement =
         DailyData(msl_items, stores, visits, session, "none").mslAchievement]_vars

\* the same when every store of the user has been visited on the date and no two
\* stores share the text name-code
SameAchievementWhenAllVisited ==
  [][(OverviewFetched /\ DistinctKeys /\ MyStores = VisitedStores) =>
       stats'.mslAchievement =
         DailyData(msl_items, stores, visits, session, "none").mslAchievement]_vars

\* both screens have been fetched for one state of the store and show different
\* achievements
AchievementsDiffer ==
  /\ stats = OverviewStats(msl_items, stores, visits, session, "none")
  /\ dailyData = DailyData(msl_items, stores, visits, session, "none")
  /\ stats.mslAchievement # dailyData.mslAchievement

\* the record of the row is in the table after the step, with the values of the row
WrittenAfter(kind, row) ==
  IF kind = "store"
  THEN \E t \in stores' :
         /\ t.store_code = row.kode_toko
         /\ t.store_name = row.nama_toko /\ t.category = row.kategori
  ELSE \E p \in products' :
         /\ p.sku_code = row.sku_code
         /\ p.product_name = row.product_name /\ p.category = row.category
         /\ p.unit_price = IF kind = "import" THEN row.unit_price ELSE row.price

\* a call ends in an open dialog with no failure counted
EndsWithoutFailure == UpsertEnds /\ upsert.attached /\ uploadResult'.failed = 0

\* C27: when a call ends with failed = 0 every valid row of the dialog is in its
\* table with the values of the row, whatever other sessions did since the parse
C27_CountedMeansWritten ==
  [][EndsWithoutFailure =>
       \A k \in 1..Len(filter(ParsedOfDialog, IsValidRow)) :
         WrittenAfter(upsert.kind, filter(ParsedOfDialog, IsValidRow)[k])]_vars

\* the same property, to be checked where no other session writes
CountedMeansWrittenAlone ==
  [][(EndsWithoutFailure /\ other.started = 0) =>
       \A k \in 1..Len(filter(ParsedOfDialog, IsValidRow)) :
         WrittenAfter(upsert.kind, filter(ParsedOfDialog, IsValidRow)[k])]_vars

\* a call counted an update and no failure, and the key of the row is in no record
UpdateCountedKeyAbsent ==
  /\ open = "product" /\ upsert.pc = "idle" /\ showPreview
  /\ uploadResult # NoResult /\ uploadResult.failed = 0 /\ uploadResult.updated > 0
  /\ \E k \in 1..Len(parsedProducts) :
       /\ parsedProducts[k].isValid /\ parsedProducts[k].action = "UPDATE"
       /\ \A p \in products : p.sku_code # parsedProducts[k].sku_code

-----------------------------------------------------------------------------
(* What a commit writes, when it reports success, and that it ends *)

\* the rows of the open dialog that its parse accepted
AcceptedItems == filter(parsedItems, LAMBDA r : r.isValid)
AcceptedRows == filter(ParsedOfDialog, LAMBDA r : r.isValid)

\* the record has the key and the values of an accepted row of the dialog
FromAcceptedRow(kind, rec) ==
  \E k \in 1..Len(AcceptedRows) :
    LET row == AcceptedRows[k]
    IN  IF kind = "store"
        THEN /\ rec.store_code = row.kode_toko
             /\ rec.store_name = row.nama_toko /\ rec.category = row.kategori
        ELSE /\ rec.sku_code = row.sku_code
             /\ rec.product_name = row.product_name /\ rec.category = row.category
             /\ rec.unit_price = IF kind = "import" THEN row.unit_price ELSE row.price

\* C28: every record a commit adds or changes has the key and the values of a row
\* that the parse of the dialog marked valid, and every category uploadMSL empties is
\* the category of such a row
C28_OnlyValidRowsWritten ==
  [][/\ (up.pc # "idle" /\ up.attached) =>
          /\ (msl_items' \ msl_items) \subseteq InsertData(AcceptedItems)
          /\ \A i \in msl_items \ msl_items' :
               \E k \in 1..Len(AcceptedItems) : AcceptedItems[k].category = i.category
     /\ (upsert.pc # "idle" /\ upsert.attached) =>
          /\ \A rec \in products' \ products : FromAcceptedRow(upsert.kind, rec)
          /\ \A rec \in stores' \ stores : FromAcceptedRow(upsert.kind, rec)]_vars

\* C28 witness: a product call wrote a row of a file that holds a refused row, after
\* an MSL upload of a file with a refused row had written its valid row
C28_Witness ==
  /\ open = "product" /\ upsert.pc = "idle"
  /\ uploadResult # NoResult /\ uploadResult.added + uploadResult.updated > 0
  /\ \E k \in 1..Len(parsedProducts) : ~parsedProducts[k].isValid
  /\ prev # NoPrev /\ Len(prev.validItems) = 1
  /\ InsertData(prev.validItems) \subseteq msl_items
  /\ \A i \in msl_items : ~(i.category = <<"Y">> /\ i.product_name = <<"n">>)

\* the step sets the timer of onSuccess of the MSL dialog, or of another dialog
MSLTimerSet == timers' > timers
UpsertTimerSet == \E kind \in DOMAIN upsertTimers : upsertTimers'[kind] > upsertTimers[kind]

\* a commit ends in this step
MSLEnds == up.pc # "idle" /\ up'.pc = "idle"

\* C29: the timer of onSuccess is set only by the step that ends a commit that
\* wrote: for uploadMSL after every delete and the insert succeeded, for the other
\* commits with added + updated > 0 and a store call that succeeded; a commit whose
\* store calls all fail sets no timer and leaves the dialog open
C29_OnSuccessOnlyAfterWrite ==
  [][/\ MSLTimerSet =>
          /\ MSLEnds /\ timers' = timers + 1
          /\ ops'[Len(ops')].op = "insert"
          /\ \A i \in 1..Len(ops') : ops'[i].error = "none"
          /\ {ops'[i].category : i \in 1..(Len(ops') - 1)} = TouchedBy(up.validItems)
          /\ InsertData(up.validItems) \subseteq msl_items'
     /\ UpsertTimerSet =>
          LET log == Append(upsert.attempts, ThisAttempt)
          IN  /\ UpsertEnds
              /\ CountOf(log, "INSERT", "none") + CountOf(log, "UPDATE", "none") > 0
              /\ upsert.attached =>
                   uploadResult'.added + uploadResult'.updated > 0
     /\ (MSLEnds /\ \E i \in 1..Len(ops') : ops'[i].error # "none") =>
          /\ timers' = timers /\ open' = open
     /\ (UpsertEnds /\ CountFailed(Append(upsert.attempts, ThisAttempt))
                         = Len(upsert.attempts) + 1) =>
          /\ upsertTimers' = upsertTimers /\ open' = open
     /\ (Timeout \/ UpsertTimeout) =>
          \/ timers > 0
          \/ \E kind \in DOMAIN upsertTimers : upsertTimers[kind] > 0]_vars

\* C29 witness: a store call of which every row failed has ended, no timer is set and
\* the dialog is open; an MSL upload that succeeded before had its dialog closed by
\* its timer
C29_Witness ==
  /\ open = "store" /\ upsert.pc = "idle"
  /\ uploadResult # NoResult
  /\ uploadResult.added + uploadResult.updated = 0 /\ uploadResult.failed > 0
  /\ upsertTimers = NoTimers /\ timers = 0
  /\ prev # NoPrev

\* a commit of the open dialog is running
CommitRunning ==
  \/ up.pc # "idle" /\ up.attached
  \/ upsert.pc # "idle" /\ upsert.attached

\* the click on a commit button takes effect
CommitStarts ==
  \/ up.pc = "idle" /\ up'.pc # "idle"
  \/ UpsertStarts

\* C30: every commit that has started ends, whatever the store answers; the flag
\* uploading is true only while a commit of the open dialog runs, so it is false
\* again when the commit has ended; and a commit starts only when the flag is false
C30_CommitEndsAndFlagIsReset ==
  /\ (up.pc # "idle") ~> (up.pc = "idle")
  /\ (upsert.pc # "idle") ~> (upsert.pc = "idle")
  /\ uploading ~> ~uploading
  /\ [](uploading => CommitRunning)
  /\ [][CommitStarts => (~uploading /\ uploading' /\ ~CommitRunning)]_vars

\* C30 witness: a second commit of the same MSL dialog, started after the first had
\* ended, has ended with a failure and the flag is false
C30_Witness ==
  /\ open = "msl" /\ showPreview /\ ~uploading
  /\ commits = 2 /\ up.pc = "idle" /\ timers = 1
  /\ ops # <<>> /\ ops[Len(ops)].error # "none"

====
